---- MODULE Spec2Model ----
(***************************************************************************)
(* A model of the quantitative analysis core of backend/main.py:           *)
(*   check_trend                      (trend classifier)                   *)
(*   get_validated_support_levels     (swing-low clusters, merge/dedup)    *)
(*   calculate_intrinsic_value        (method selection, discount rate)    *)
(*   get_stock_data                   (weighted composite score)           *)
(*                                                                         *)
(* Floating-point quantities are modelled exactly: a price, a revenue or   *)
(* a beta is an integer number of fixed units (beta in hundredths, rates   *)
(* in tenths of a percent), a cluster average is the rational sum/count,   *)
(* and every comparison the code makes between floats is the same          *)
(* comparison cross-multiplied.  A float NaN is a value of its own, and    *)
(* every ordered comparison with it is false, as in IEEE-754.  Strings     *)
(* are sequences of characters, so that Python's `in` is a real substring  *)
(* test.                                                                   *)
(***************************************************************************)
EXTENDS Integers, Sequences, FiniteSets, TLC

VARIABLES
    \* ---- check_trend
    t_series,       \* the pandas Series handed to check_trend: <<[idx, nan, v]>>
    t_kind,         \* trend_type
    t_tol,          \* tolerance, in percent
    t_fit,          \* sign np.polyfit reports for a slope that is exactly zero
    t_result,       \* the returned boolean
    t_pc,           \* "call" before the call, "done" after it
    \* ---- get_validated_support_levels
    sma_stats,      \* per (timeframe, window): the latest SMA and its bounce count
    swing_lows,     \* the swing lows of the weekly and daily bars, as collected
    daily_closes,   \* hist_1y_d['Close'], oldest first; <<>> for an empty history
    current_price,  \* the last daily close, 0 until it is read
    s_groups,       \* every run of lows the clustering loop formed
    clusters,       \* the clusters it kept: [price, count]
    support_candidates, \* the candidates, sorted for the merge
    merged_groups,  \* every merged_group the merge loop formed, in order
    s_levels,       \* the returned levels
    s_pc,
    \* ---- calculate_intrinsic_value
    info,           \* currentPrice, sharesOutstanding, sector, industry, country
    revenue_series, \* newest first, as are the next two
    net_income_series,
    op_cash_flow_series,
    beta,
    growth_estimates, \* <<period and stockTrend, as text>>
    balance_sheet,  \* the newest column: row name -> value
    cashflow,       \* likewise
    method,         \* the method selected, "N/A" on the early return
    discount_rate,  \* in tenths of a percent
    growth_rates,   \* growth_rate_1_5, growth_rate_6_10, growth_rate_11_20
    result,         \* the returned dict
    v_pc,
    \* ---- get_discount_rate
    dr_calls,       \* the last two calls: <<[beta, country, rate]>>
    \* ---- get_stock_data: the composite score
    sc_in,          \* the outcome of each criterion's own test
    sc_company,     \* info's sector and industry, and the TTM inventory
    moat_in,        \* what the moat factors read: margins, ROIC, revenue, growth
    moat_score2,    \* 2 * moat_score, the score moving in halves of a point
    moat_type,
    current_weights, \* the weight table selected
    score_criteria, \* <<[name, status]>>
    total_score,
    max_score,
    sc_pc,
    \* ---- get_validated_support_levels: the SMA bounce test
    b_frames,       \* the monthly, weekly and daily histories: <<[low, close]>>
    b_price,        \* current_price
    b_candidates,   \* the candidates of the SMA bounce test
    b_pc,
    \* ---- get_stock_data: the 'Historical Trend (20Y)' criterion
    h_history,      \* the rows of `history`: <<[age, close]>>, oldest first
    h_pass,         \* trend_pass
    h_val,          \* the label of trend_val
    h_criterion,    \* the criterion appended
    h_pc,
    \* ---- read_stock: clean_nan
    c_data,         \* what get_stock_data returned
    c_response,     \* what read_stock returns
    c_pc,
    \* ---- get_stock_data: the growth estimates
    g_provider,     \* what stock.get_growth_estimates() returned
    g_raised,       \* whether it raised instead
    g_fetched,      \* growth_estimates_data after the fetch
    g_estimates,    \* growth_estimates
    g_data,         \* growth_estimates_data after the processing for the table
    g_handed,       \* the growth_estimates argument of calculate_intrinsic_value
    g_response,     \* financials.growth_estimates of the response
    g_pc,
    \* ---- evaluate_moat
    m_api_key,      \* whether GEMINI_API_KEY is set
    m_contacted,    \* the requests made so far: <<[model, response]>>
    m_last_exception, \* last_exception, by name
    m_outcome,      \* what the call ended in: a returned value or an HTTP 500 and its detail
    m_pc,
    \* ---- get_stock_data, path of an exception
    p_raised,       \* the try blocks whose body raises
    p_dtype,        \* dtype of the statement frames
    p_ttm,          \* TTM rows "Net Income" and "Stockholders Equity"
    p_revenue,      \* revenue_series, newest first
    p_receivables,  \* accounts_receivable_series, newest first
    p_outcome,      \* the returned structure, or the HTTP 500 raised
    p_pc

trendVars == <<t_series, t_kind, t_tol, t_fit, t_result, t_pc>>
supportVars == <<sma_stats, swing_lows, daily_closes, current_price, s_groups, clusters,
                 support_candidates, merged_groups, s_levels, s_pc>>
valuationVars == <<info, revenue_series, net_income_series, op_cash_flow_series,
                   beta, growth_estimates, balance_sheet, cashflow,
                   method, discount_rate, growth_rates, result, v_pc>>
discountVars == <<dr_calls>>
scoreVars == <<sc_in, sc_company, moat_in, moat_score2, moat_type, current_weights,
               score_criteria, total_score, max_score, sc_pc>>
bounceVars == <<b_frames, b_price, b_candidates, b_pc>>
historyVars == <<h_history, h_pass, h_val, h_criterion, h_pc>>
cleanVars == <<c_data, c_response, c_pc>>
growthVars == <<g_provider, g_raised, g_fetched, g_estimates, g_data, g_handed, g_response, g_pc>>
moatVars == <<m_api_key, m_contacted, m_last_exception, m_outcome, m_pc>>
pipelineVars == <<p_raised, p_dtype, p_ttm, p_revenue, p_receivables, p_outcome, p_pc>>
vars == <<trendVars, supportVars, valuationVars, discountVars, scoreVars,
         bounceVars,
         historyVars,
         cleanVars,
         growthVars,
         moatVars,
         pipelineVars>>

----------------------------------------------------------------------------
(* Generic helpers *)

Abs(x) == IF x < 0 THEN -x ELSE x

RECURSIVE Pow(_, _)
Pow(b, e) == IF e = 0 THEN 1 ELSE b * Pow(b, e - 1)

SeqsUpTo(S, n) == UNION { [1..k -> S] : k \in 0..n }

Reverse(s) == [i \in 1..Len(s) |-> s[Len(s) + 1 - i]]

RECURSIVE SumSeq(_)
SumSeq(s) == IF s = <<>> THEN 0 ELSE s[1] + SumSeq(Tail(s))

\* A float: either NaN or the number v.
Num(x) == [nan |-> FALSE, v |-> x]
NaN == [nan |-> TRUE, v |-> 0]

----------------------------------------------------------------------------
(* check_trend: main.py 872-942 *)

MaxTrendLen == 3

TrendKinds == {"increasing", "stable_increasing", "reducing_stable"}
TrendTolerances == {5, 10}
TrendValues == {Num(96), Num(98), Num(100), Num(110), NaN}

\* series.dropna()
DropNa(series) == SelectSeq(series, LAMBDA e : ~e.nan)

\* series.sort_index(ascending=False): insertion of each element into a
\* sequence kept descending by idx (the index holds distinct period ends).
RECURSIVE InsertByIdxDesc(_, _)
InsertByIdxDesc(e, s) ==
    IF s = <<>> THEN <<e>>
    ELSE IF e.idx >= s[1].idx THEN <<e>> \o s
    ELSE <<s[1]>> \o InsertByIdxDesc(e, Tail(s))

RECURSIVE SortIndexDesc(_)
SortIndexDesc(series) ==
    IF series = <<>> THEN <<>>
    ELSE InsertByIdxDesc(series[1], SortIndexDesc(Tail(series)))

\* The sign of the least-squares slope of y over x = 0..n-1, which is the
\* sign of n*Sum(x*y) - Sum(x)*Sum(y).  Where the exact slope is zero the
\* floating-point fit may report a tiny value of either sign: `fit` is that
\* sign.
SlopeSign(y, fit) ==
    LET n   == Len(y)
        sxy == SumSeq([i \in 1..n |-> (i - 1) * y[i]])
        sx  == SumSeq([i \in 1..n |-> i - 1])
        sy  == SumSeq(y)
        d   == n * sxy - sx * sy
    IN  IF d > 0 THEN 1 ELSE IF d < 0 THEN -1 ELSE fit

\* if series.empty or len(series) < 2: return False
TooShortMut(series) == Len(series) < 1
TooShort(series) == Len(series) < 2

\* Step 3 of "increasing": no chronological step falls below
\* prev * (1 - tolerance).
ConsistentIncrease(chron, tol) ==
    \A i \in 2..Len(chron) : ~(100 * chron[i] < chron[i - 1] * (100 - tol))

\* The body of check_trend after the length guard; `desc` is newest-first.
TrendVerdict(desc, kind, tol, fit) ==
    LET y      == [i \in 1..Len(desc) |-> desc[i].v]
        newest == y[1]
        oldest == y[Len(y)]
        chron  == Reverse(y)
    IN  CASE kind = "increasing" ->
               \/ newest > oldest
               \/ SlopeSign(chron, fit) > 0
               \/ ConsistentIncrease(chron, tol)
          [] kind = "stable_increasing" ->
               \/ 100 * newest >= oldest * (100 - tol)
               \/ SlopeSign(chron, fit) >= 0
          [] kind = "reducing_stable" ->
               \/ 100 * newest <= oldest * (100 + tol)
               \/ SlopeSign(chron, fit) <= 0
          [] OTHER -> FALSE

check_trend(series, kind, tol, fit) ==
    LET s == DropNa(series)
    IN  IF TooShort(s) THEN FALSE
        ELSE TrendVerdict(SortIndexDesc(s), kind, tol, fit)

\* A Series over the periods 1..Len(vals) (1 the oldest), stored newest
\* first (the provider's convention) or oldest first.
MkSeries(vals, newestFirst) ==
    LET n == Len(vals)
        chron == [i \in 1..n |-> [idx |-> i, nan |-> vals[i].nan, v |-> vals[i].v]]
    IN  IF newestFirst THEN Reverse(chron) ELSE chron

\* The values of a Series in chronological order, missing values dropped.
Chronological(series) ==
    LET d == SortIndexDesc(DropNa(series))
    IN  Reverse([i \in 1..Len(d) |-> d[i].v])

TrendInit ==
    /\ t_series \in { MkSeries(vals, nf) :
                        vals \in SeqsUpTo(TrendValues, MaxTrendLen),
                        nf \in BOOLEAN }
    /\ t_kind \in TrendKinds
    /\ t_tol \in TrendTolerances
    /\ t_fit \in {-1, 0, 1}
    /\ t_result = FALSE
    /\ t_pc = "call"

CheckTrend ==
    /\ t_pc = "call"
    /\ t_result' = check_trend(t_series, t_kind, t_tol, t_fit)
    /\ t_pc' = "done"
    /\ UNCHANGED <<t_series, t_kind, t_tol, t_fit>>

TrendIdle ==
    /\ t_series = <<>>
    /\ t_kind = "increasing"
    /\ t_tol = 5
    /\ t_fit = 0
    /\ t_result = FALSE
    /\ t_pc = "idle"

----------------------------------------------------------------------------
(* get_validated_support_levels: main.py 31-178 *)

MaxSma == 7
MaxLows == 4

\* A price is the rational n/d with d > 0.
Price(x) == [n |-> x, d |-> 1]
PriceLess(a, b) == a.n * b.d < b.n * a.d

\* Line 40: the last daily close, 0 for an empty daily history.
CurrentPrice(closes) == IF closes = <<>> THEN 0 ELSE closes[Len(closes)]

\* timeframes x sma_periods, in the order the loops visit them.
Timeframes == <<"Monthly", "Weekly", "Daily">>
SmaPeriods == <<50, 100, 150, 200>>
SlotTimeframe(i) == Timeframes[((i - 1) \div 4) + 1]
SlotPeriod(i) == SmaPeriods[((i - 1) % 4) + 1]

\* Logic 1, lines 78-86: a slot whose SMA saw at least 3 bounces and lies
\* below the current price becomes a candidate, scored 2 per bounce.
\* Scores are kept in halves of a point (field score2 = 2 * score), the
\* cluster score count * 1.5 being a half-integer.
SmaCandidate(i, stat) ==
    [price  |-> Price(stat.sma),
     source |-> SlotTimeframe(i),
     reason |-> <<SlotTimeframe(i), SlotPeriod(i), stat.bounces>>,
     score2 |-> 2 * (stat.bounces * 2)]

RECURSIVE SmaCandidatesMut(_, _, _)
SmaCandidatesMut(stats, i, price) ==
    IF i > Len(stats) THEN <<>>
    ELSE (IF stats[i].bounces >= 3
          THEN <<SmaCandidate(i, stats[i])>> ELSE <<>>)
         \o SmaCandidatesMut(stats, i + 1, price)

RECURSIVE SmaCandidates(_, _, _)
SmaCandidates(stats, i, price) ==
    IF i > Len(stats) THEN <<>>
    ELSE (IF stats[i].bounces >= 3 /\ stats[i].sma < price
          THEN <<SmaCandidate(i, stats[i])>> ELSE <<>>)
         \o SmaCandidates(stats, i + 1, price)

\* swing_lows.sort()
RECURSIVE InsertAsc(_, _)
InsertAsc(x, s) ==
    IF s = <<>> THEN <<x>>
    ELSE IF x < s[1] THEN <<x>> \o s
    ELSE <<s[1]>> \o InsertAsc(x, Tail(s))

RECURSIVE SortAsc(_)
SortAsc(s) == IF s = <<>> THEN <<>> ELSE InsertAsc(s[Len(s)], SortAsc(SubSeq(s, 1, Len(s) - 1)))

\* abs(price - avg_cluster) / avg_cluster <= 0.02, avg_cluster = sum/len.
\* A zero average divides to inf or nan (numpy floats), which is not <= 0.02;
\* a negative one gives a quotient <= 0.
WithinClusterNaive(price, cluster) ==
    100 * Abs(price * Len(cluster) - SumSeq(cluster)) <= 2 * SumSeq(cluster)
WithinClusterMut(price, cluster) ==
    LET last == cluster[Len(cluster)]
    IN  last > 0 /\ 100 * Abs(price - last) <= 2 * last
WithinCluster(price, cluster) ==
    LET sum == SumSeq(cluster)
        len == Len(cluster)
    IN  IF sum > 0 THEN 100 * Abs(price * len - sum) <= 2 * sum
        ELSE sum < 0

\* The loop of lines 111-128 from position i on: `cur` is current_cluster,
\* `done` the runs already closed.  The last run is closed at the end.
RECURSIVE ClusterWalk(_, _, _, _)
ClusterWalk(lows, i, cur, done) ==
    IF i > Len(lows) THEN Append(done, cur)
    ELSE IF WithinCluster(lows[i], cur)
         THEN ClusterWalk(lows, i + 1, Append(cur, lows[i]), done)
         ELSE ClusterWalk(lows, i + 1, <<lows[i]>>, Append(done, cur))

ClusterRuns(lows) ==
    IF lows = <<>> THEN <<>> ELSE ClusterWalk(lows, 2, <<lows[1]>>, <<>>)

\* Lines 121-127 and 131-137: a closed run is kept when it has at least 2
\* touches and its average is below the current price.
KeepsClusterMut(run, price) ==
    Len(run) >= 1 /\ PriceLess([n |-> SumSeq(run), d |-> Len(run)], Price(price))
KeepsCluster(run, price) ==
    Len(run) >= 2 /\ PriceLess([n |-> SumSeq(run), d |-> Len(run)], Price(price))

RECURSIVE KeptClusters(_, _)
KeptClusters(runs, price) ==
    IF runs = <<>> THEN <<>>
    ELSE (IF KeepsCluster(runs[1], price)
          THEN <<[price |-> [n |-> SumSeq(runs[1]), d |-> Len(runs[1])],
                  count |-> Len(runs[1])]>>
          ELSE <<>>)
         \o KeptClusters(Tail(runs), price)

\* Lines 139-145
ClusterCandidate(c) ==
    [price  |-> c.price,
     source |-> "Price Action",
     reason |-> <<"Horizontal Cluster", c.count>>,
     score2 |-> 3 * c.count]

\* support_candidates.sort(key=price, reverse=True): stable, so candidates
\* of equal price keep the order they were appended in.
RECURSIVE InsertByPriceDesc(_, _)
InsertByPriceDesc(c, s) ==
    IF s = <<>> THEN <<c>>
    ELSE IF ~PriceLess(c.price, s[1].price) THEN <<c>> \o s
    ELSE <<s[1]>> \o InsertByPriceDesc(c, Tail(s))

RECURSIVE SortByPriceDesc(_)
SortByPriceDesc(s) ==
    IF s = <<>> THEN <<>>
    ELSE InsertByPriceDesc(s[1], SortByPriceDesc(Tail(s)))

\* abs(current_level.price - next_level.price) / current_level.price <= 0.015
WithinMergeMut(cur, nxt) ==
    cur.n > 0 /\ 1000 * Abs(cur.n * nxt.d - nxt.n * cur.d) <= 10 * nxt.d * cur.n
WithinMerge(cur, nxt) ==
    IF cur.n > 0
    THEN 1000 * Abs(cur.n * nxt.d - nxt.n * cur.d) <= 15 * nxt.d * cur.n
    ELSE cur.n < 0

\* The loop of lines 161-172 from position i on.
RECURSIVE MergeWalkMut(_, _, _, _)
MergeWalkMut(cands, i, current_level, unique_levels) ==
    IF i > Len(cands) THEN Append(unique_levels, current_level)
    ELSE LET next_level == cands[i]
         IN  IF WithinMerge(current_level.price, next_level.price)
             THEN MergeWalkMut(cands, i + 1,
                               IF next_level.score2 >= current_level.score2
                               THEN next_level ELSE current_level,
                               unique_levels)
             ELSE MergeWalkMut(cands, i + 1, next_level,
                               Append(unique_levels, current_level))

RECURSIVE MergeWalk(_, _, _, _)
MergeWalk(cands, i, current_level, unique_levels) ==
    IF i > Len(cands) THEN Append(unique_levels, current_level)
    ELSE LET next_level == cands[i]
         IN  IF WithinMerge(current_level.price, next_level.price)
             THEN MergeWalk(cands, i + 1,
                            IF next_level.score2 > current_level.score2
                            THEN next_level ELSE current_level,
                            unique_levels)
             ELSE MergeWalk(cands, i + 1, next_level,
                            Append(unique_levels, current_level))

\* The same loop, keeping merged_group (lines 158, 164, 171): `group` is
\* the group being filled, `groups` the ones closed so far.
RECURSIVE MergedGroupWalk(_, _, _, _, _)
MergedGroupWalk(cands, i, current_level, group, groups) ==
    IF i > Len(cands) THEN Append(groups, group)
    ELSE LET next_level == cands[i]
         IN  IF WithinMerge(current_level.price, next_level.price)
             THEN MergedGroupWalk(cands, i + 1,
                                  IF next_level.score2 > current_level.score2
                                  THEN next_level ELSE current_level,
                                  Append(group, next_level), groups)
             ELSE MergedGroupWalk(cands, i + 1, next_level, <<next_level>>,
                                  Append(groups, group))

MergedGroups(cands) ==
    IF cands = <<>> THEN <<>> ELSE MergedGroupWalk(cands, 2, cands[1], <<cands[1]>>, <<>>)

UniqueLevels(cands) ==
    IF cands = <<>> THEN <<>> ELSE MergeWalk(cands, 2, cands[1], <<>>)

\* unique_levels[:5]
TopLevels(levels) == SubSeq(levels, 1, IF Len(levels) < 5 THEN Len(levels) ELSE 5)

\* The latest SMA of each slot in the inputs drawn below.
SlotSma == <<980, 1000, 988, 900, 700, 800, 600, 500, 985, 400, 300, 200>>
BounceCounts == {2, 3, 4}
LowValues == {0, 1000, 1010, 1015, 1019, 1038, 1500}
DailyCloses == {<<>>, <<2000, 995>>, <<995, 2000>>}

StatsOf(b) == [i \in 1..Len(b) |-> [sma |-> SlotSma[i], bounces |-> b[i]]]
NoStats == <<>>
SomeStats == StatsOf(<<3, 4, 2, 3>>)
LowsMenu == {<<>>, <<1500, 1015, 1010, 1000>>}

\* Either the SMA slots vary and the swing lows come from a short menu, or
\* the swing lows vary and the SMA slots do.
SupportInit ==
    /\ \/ /\ sma_stats \in { StatsOf(b) : b \in [1..MaxSma -> BounceCounts] }
          /\ swing_lows \in LowsMenu
       \/ /\ sma_stats \in {NoStats, SomeStats}
          /\ swing_lows \in SeqsUpTo(LowValues, MaxLows)
    /\ daily_closes \in DailyCloses
    /\ current_price = 0
    /\ s_groups = <<>>
    /\ clusters = <<>>
    /\ support_candidates = <<>>
    /\ merged_groups = <<>>
    /\ s_levels = <<>>
    /\ s_pc = "call"

\* The whole body runs inside `try`.  The price histories are fetched from
\* the data provider, which may raise: `except Exception` (lines 176-178)
\* then returns [].  The arithmetic on the fetched prices is on numpy
\* floats and raises nothing.
GetValidatedSupportLevels ==
    /\ s_pc = "call"
    /\ \/ /\ LET price == CurrentPrice(daily_closes)
                 runs  == ClusterRuns(SortAsc(swing_lows))
                 kept  == KeptClusters(runs, price)
                 cands == SortByPriceDesc(
                              SmaCandidates(sma_stats, 1, price)
                              \o [i \in 1..Len(kept) |-> ClusterCandidate(kept[i])])
             IN  /\ current_price' = price
                 /\ s_groups' = runs
                 /\ clusters' = kept
                 /\ support_candidates' = cands
                 /\ merged_groups' = MergedGroups(cands)
                 /\ s_levels' = TopLevels(UniqueLevels(cands))
          /\ s_pc' = "done"
       \/ /\ s_levels' = <<>>
          /\ s_pc' = "failed"
          /\ UNCHANGED <<current_price, s_groups, clusters, support_candidates, merged_groups>>
    /\ UNCHANGED <<sma_stats, swing_lows, daily_closes>>

SupportIdle ==
    /\ sma_stats = <<>>
    /\ swing_lows = <<>>
    /\ daily_closes = <<>>
    /\ current_price = 0
    /\ s_groups = <<>>
    /\ clusters = <<>>
    /\ support_candidates = <<>>
    /\ merged_groups = <<>>
    /\ s_levels = <<>>
    /\ s_pc = "idle"

----------------------------------------------------------------------------
(* Strings: Python's `needle in hay` on sequences of characters *)

Contains(hay, needle) ==
    \E i \in 0..(Len(hay) - Len(needle)) :
        SubSeq(hay, i + 1, i + Len(needle)) = needle

StrChina == <<"C", "h", "i", "n", "a">>
StrUnitedStates == <<"U", "n", "i", "t", "e", "d", " ", "S", "t", "a", "t", "e", "s">>
StrFinancial == <<"F", "i", "n", "a", "n", "c", "i", "a", "l">>
StrBank == <<"B", "a", "n", "k">>
StrInsurance == <<"I", "n", "s", "u", "r", "a", "n", "c", "e">>
StrFinancialServices == <<"F", "i", "n", "a", "n", "c", "i", "a", "l", " ", "S", "e", "r", "v", "i", "c", "e", "s">>
StrTechnology == <<"T", "e", "c", "h", "n", "o", "l", "o", "g", "y">>
StrBanksRegional == <<"B", "a", "n", "k", "s", " ", "-", " ", "R", "e", "g", "i", "o", "n", "a", "l">>
StrInsuranceLife == <<"I", "n", "s", "u", "r", "a", "n", "c", "e", " ", "-", " ", "L", "i", "f", "e">>
StrREIT == <<"R", "E", "I", "T">>
StrRealEstate == <<"R", "e", "a", "l", " ", "E", "s", "t", "a", "t", "e">>
StrReitRetail == <<"R", "E", "I", "T", " ", "-", " ", "R", "e", "t", "a", "i", "l">>
StrRealEstateServices == <<"R", "e", "a", "l", " ", "E", "s", "t", "a", "t", "e", " ", "S", "e", "r", "v", "i", "c", "e", "s">>
StrSoftware == <<"S", "o", "f", "t", "w", "a", "r", "e", " ", "-", " ", "A", "p", "p", "l", "i", "c", "a", "t", "i", "o", "n">>

----------------------------------------------------------------------------
(* calculate_intrinsic_value: main.py 180-459 *)

MaxSeriesLen == 3

\* A beta: missing (None), or a number of hundredths.
Beta(x) == [none |-> FALSE, v |-> x]
NoBeta == [none |-> TRUE, v |-> 0]

\* `beta if beta else 1.0`: None and 0.0 are both falsy.
BetaOrDefaultMut(beta_val) ==
    IF beta_val.none \/ beta_val.v = 0 THEN Beta(50) ELSE beta_val
BetaOrDefault(beta_val) ==
    IF beta_val.none \/ beta_val.v = 0 THEN Beta(100) ELSE beta_val

\* get_discount_rate, lines 241-288.  beta in hundredths, the rate in
\* tenths of a percent.
DiscountRateChinaMut(b) ==
    IF b < 80 THEN 85
    ELSE IF b < 85 THEN 85
    ELSE IF b < 95 THEN 93
    ELSE IF b < 105 THEN 100
    ELSE IF b < 115 THEN 108
    ELSE IF b < 125 THEN 115
    ELSE IF b < 135 THEN 122
    ELSE IF b < 145 THEN 130
    ELSE 137
DiscountRateChina(b) ==
    IF b < 80 THEN 85
    ELSE IF b >= 160 THEN 145
    ELSE IF b < 85 THEN 85
    ELSE IF b < 95 THEN 93
    ELSE IF b < 105 THEN 100
    ELSE IF b < 115 THEN 108
    ELSE IF b < 125 THEN 115
    ELSE IF b < 135 THEN 122
    ELSE IF b < 145 THEN 130
    ELSE 137

DiscountRateOther(b) ==
    IF b < 80 THEN 54
    ELSE IF b >= 160 THEN 78
    ELSE IF b < 85 THEN 54
    ELSE IF b < 95 THEN 57
    ELSE IF b < 105 THEN 60
    ELSE IF b < 115 THEN 63
    ELSE IF b < 125 THEN 66
    ELSE IF b < 135 THEN 69
    ELSE IF b < 145 THEN 72
    ELSE IF b < 155 THEN 75
    ELSE 78

get_discount_rate(beta_val, country) ==
    LET b == BetaOrDefault(beta_val).v
    IN  IF Contains(country, StrChina) THEN DiscountRateChina(b)
        ELSE DiscountRateOther(b)

\* Lines 290-291: the caller applies the same default before the call.
DiscountRateFor(beta_val, country) ==
    get_discount_rate(BetaOrDefault(beta_val), country)

\* is_consistent, lines 195-202.  The series is newest first; a step with a
\* NaN on either side compares false.
StepHolds(newer, older) == ~newer.nan /\ ~older.nan /\ 10 * newer.v >= 9 * older.v

Increases(series) == Cardinality({ i \in 1..(Len(series) - 1) : StepHolds(series[i], series[i + 1]) })

is_consistent_mut(series) ==
    IF Len(series) < 3 THEN FALSE
    ELSE Increases(series) >= Len(series) - 1
is_consistent(series) ==
    IF Len(series) < 3 THEN FALSE
    ELSE Increases(series) >= Len(series) - 2

\* Lines 209-211 and the test rev_cagr > 0.15 of line 216:
\*   rev_cagr = (newest / oldest) ** (1 / len(series)) - 1   if len >= 3, else 0
\* so rev_cagr > 0.15 iff newest / oldest > (23/20) ** len.  A NaN operand
\* gives NaN, which is not > 0.15; a zero oldest value under a positive
\* newest one divides to inf.  (Revenues drawn here are never negative.)
RevCagrAbove15(series) ==
    LET n == Len(series)
        newest == series[1]
        oldest == series[n]
    IN  /\ n >= 3
        /\ ~newest.nan /\ ~oldest.nan
        /\ newest.v > 0
        /\ \/ oldest.v = 0
           \/ oldest.v > 0 /\ newest.v * Pow(20, n) > oldest.v * Pow(23, n)

\* series.iloc[0] if not series.empty else 0
CurrentOf(series) == IF series = <<>> THEN Num(0) ELSE series[1]

IsNegative(x) == ~x.nan /\ x.v < 0
IsPositive(x) == ~x.nan /\ x.v > 0

\* Line 192
is_financial(sector, industry) ==
    \/ Contains(sector, StrFinancial)
    \/ Contains(industry, StrBank)
    \/ Contains(industry, StrInsurance)

\* Line 216
is_speculative(sector, industry, rev, ni, ocf) ==
    /\ RevCagrAbove15(rev)
    /\ (IsNegative(CurrentOf(ni)) \/ IsNegative(CurrentOf(ocf)))
    /\ ~is_financial(sector, industry)

MethodPB == "Mean Price-to-Book (PB)"
MethodPSG == "Price to Sales Growth (PSG)"
MethodDFCF == "Discounted Free Cash Flow (DFCF)"
MethodDOCF == "Discounted Operating Cash Flow (DOCF)"
MethodDNI == "Discounted Net Income (DNI)"

\* Lines 225-237: the branch taken when the company is neither financial
\* nor speculative.
ConsistencyMethod(rev, ni, ocf) ==
    LET current_ni == CurrentOf(ni)
        current_ocf == CurrentOf(ocf)
    IN  IF is_consistent(rev) /\ is_consistent(ni) /\ is_consistent(ocf)
        THEN IF ~current_ocf.nan /\ ~current_ni.nan /\ 2 * current_ocf.v > 3 * current_ni.v
             THEN MethodDFCF ELSE MethodDOCF
        ELSE IF is_consistent(rev) /\ is_consistent(ni) THEN MethodDNI
        ELSE IF IsPositive(current_ocf) THEN MethodDOCF
        ELSE MethodDNI

\* Lines 218-237
SelectMethodMut(sector, industry, rev, ni, ocf) ==
    IF RevCagrAbove15(rev) /\ (IsNegative(CurrentOf(ni)) \/ IsNegative(CurrentOf(ocf)))
    THEN MethodPSG
    ELSE IF is_financial(sector, industry) THEN MethodPB
    ELSE ConsistencyMethod(rev, ni, ocf)
SelectMethod(sector, industry, rev, ni, ocf) ==
    IF is_financial(sector, industry) THEN MethodPB
    ELSE IF is_speculative(sector, industry, rev, ni, ocf) THEN MethodPSG
    ELSE ConsistencyMethod(rev, ni, ocf)

\* dict.get(key, default)
Get(dict, key, default) == IF key \in DOMAIN dict THEN dict[key] ELSE default

\* ---- The growth schedule, lines 293-322.  A rate is a float: NaN, or a
\* number of tenths of a percent.

\* str.replace("%", "")
RECURSIVE RemovePercent(_)
RemovePercent(str) ==
    IF str = <<>> THEN <<>>
    ELSE (IF str[1] = "%" THEN <<>> ELSE <<str[1]>>) \o RemovePercent(Tail(str))

Digits == <<"0", "1", "2", "3", "4", "5", "6", "7", "8", "9">>
IsDigit(c) == \E i \in 1..10 : Digits[i] = c
DigitValue(c) == (CHOOSE i \in 1..10 : Digits[i] = c) - 1

RECURSIVE DigitsValue(_)
DigitsValue(str) ==
    IF str = <<>> THEN 0
    ELSE 10 * DigitsValue(SubSeq(str, 1, Len(str) - 1)) + DigitValue(str[Len(str)])

\* float(str) on the decimal notations [-]d+ and [-]d+.d and on "nan":
\* the value in tenths, or a ValueError (ok = FALSE) for anything else
\* drawn here.
ParseUnsigned(str) ==
    LET n == Len(str)
    IN  IF n >= 1 /\ \A i \in 1..n : IsDigit(str[i])
        THEN [ok |-> TRUE, val |-> Num(10 * DigitsValue(str))]
        ELSE IF n >= 3 /\ str[n - 1] = "." /\ IsDigit(str[n])
                /\ \A i \in 1..(n - 2) : IsDigit(str[i])
        THEN [ok |-> TRUE,
              val |-> Num(10 * DigitsValue(SubSeq(str, 1, n - 2)) + DigitValue(str[n]))]
        ELSE [ok |-> FALSE, val |-> NaN]

ParseFloat(str) ==
    IF str = <<"n", "a", "n">> THEN [ok |-> TRUE, val |-> NaN]
    ELSE IF str # <<>> /\ str[1] = "-"
    THEN LET u == ParseUnsigned(Tail(str))
         IN  IF u.ok THEN [ok |-> TRUE, val |-> Num(-u.val.v)] ELSE u
    ELSE ParseUnsigned(str)

StrNext5Years == <<"N", "e", "x", "t", " ", "5", " ", "Y", "e", "a", "r", "s">>
StrZero == <<"0">>

\* Lines 298-305: the first 'Next 5 Years' entry whose stockTrend parses
\* sets the rate (a percentage, so its tenths are the rate's tenths of a
\* percent) and ends the loop; one that does not parse is passed over.
RECURSIVE EstimateRate(_, _)
EstimateRate(estimates, rate) ==
    IF estimates = <<>> THEN rate
    ELSE LET est == estimates[1]
             parsed == ParseFloat(RemovePercent(Get(est, "stockTrend", StrZero)))
         IN  IF Contains(Get(est, "period", <<>>), StrNext5Years) /\ parsed.ok
             THEN parsed.val
             ELSE EstimateRate(Tail(estimates), rate)

\* (end / start) ** (1 / n) - 1 for end > 0 and start > 0.  The root is
\* irrational in general: it is kept as the multiple of 5% just below it,
\* between -100% and 40%.  The clamp bounds (-10%, 30%) and the 15% cap
\* are such multiples, so the comparisons the schedule makes are exact.
RootRate(end, start, n) ==
    LET steps == { k \in -20..8 : start * Pow(20 + k, n) <= end * Pow(20, n) }
    IN  50 * (CHOOSE k \in steps : \A j \in steps : j <= k)

\* Lines 308-313: the historical net-income growth.  A negative `end`
\* under a fractional power gives NaN (numpy floats); a NaN `start` is
\* not > 0.
HistoricalRate(ni, rate) ==
    IF Len(ni) > 3
    THEN LET start == ni[Len(ni)]
             end == ni[1]
         IN  IF start.nan \/ start.v = 0 THEN rate
             ELSE IF end.nan \/ end.v < 0 THEN NaN
             ELSE IF end.v = 0 THEN Num(-1000)
             ELSE Num(RootRate(end.v, Abs(start.v), Len(ni)))
    ELSE rate

\* Python's max(a, b) and min(a, b): b replaces a only when b > a (b < a),
\* which a NaN on either side never satisfies.
PyMax(a, b) == IF ~a.nan /\ ~b.nan /\ b.v > a.v THEN b ELSE a
PyMin(a, b) == IF ~a.nan /\ ~b.nan /\ b.v < a.v THEN b ELSE a

\* Lines 295-313: 5% unless the estimates or the history say otherwise.
\* The history is read only when there are no estimates at all.
GrowthSource(estimates, ni) ==
    IF estimates # <<>> THEN EstimateRate(estimates, Num(50))
    ELSE HistoricalRate(ni, Num(50))

\* Line 316: min(max(growth_rate_1_5, -0.10), 0.30)
ClampGrowth(rate) == PyMin(PyMax(rate, Num(-100)), Num(300))

\* Lines 316-322
GrowthSchedule(estimates, ni, country) ==
    LET rate == ClampGrowth(GrowthSource(estimates, ni))
    IN  [growth_rate_1_5 |-> rate,
         growth_rate_6_10 |-> PyMin(rate, Num(150)),
         growth_rate_11_20 |-> IF Contains(country, StrChina) THEN Num(60) ELSE Num(40)]

\* ---- Amounts per share and ratios are rationals n/d with d > 0, or NaN.
RECURSIVE GCD(_, _)
GCD(a, b) == IF b = 0 THEN a ELSE GCD(b, a % b)

\* In lowest terms, so that equal ratios are equal values.
Ratio(n, d) ==
    LET g == GCD(Abs(n), Abs(d))
        sign == IF d < 0 THEN -1 ELSE 1
    IN  [nan |-> FALSE, n |-> sign * (n \div g), d |-> sign * (d \div g)]
RatioNaN == [nan |-> TRUE, n |-> 0, d |-> 1]
RatioIsZero(x) == ~x.nan /\ x.n = 0

\* Lines 325-334: total debt and cash, 0 when the balance sheet is empty or
\* lacks the row.  A balance sheet is the newest column: row name -> value.
TotalDebt(sheet) == Get(sheet, "Total Debt", Num(0))
CashAndEquivalents(sheet) ==
    IF "Cash And Cash Equivalents" \in DOMAIN sheet
    THEN sheet["Cash And Cash Equivalents"]
    ELSE Get(sheet, "Cash Cash Equivalents And Short Term Investments", Num(0))

\* Lines 340-364, the PB method.  info.get("bookValue") is None when the
\* key is absent; a None or zero book value is recomputed from the equity
\* when there is a balance sheet; multiplying a None raises TypeError.
BookValue(inf, sheet, shares) ==
    LET given == "bookValue" \in DOMAIN inf /\ inf["bookValue"] # 0
    IN  IF given THEN [none |-> FALSE, val |-> Ratio(inf["bookValue"], 1)]
        ELSE IF DOMAIN sheet # {}
        THEN LET equity == Get(sheet, "Stockholders Equity", Num(0))
             IN  [none |-> FALSE,
                  val |-> IF equity.nan THEN RatioNaN ELSE Ratio(equity.v, shares)]
        ELSE IF "bookValue" \in DOMAIN inf
        THEN [none |-> FALSE, val |-> Ratio(0, 1)]
        ELSE [none |-> TRUE, val |-> RatioNaN]

\* mean_pb = current_pb if current_pb else 1.5
MeanPB(inf) ==
    IF "priceToBook" \in DOMAIN inf /\ inf["priceToBook"] # 0
    THEN Ratio(inf["priceToBook"], 1) ELSE Ratio(3, 2)

ValuePB(book_value, mean_pb) ==
    IF book_value.nan THEN RatioNaN
    ELSE Ratio(book_value.n * mean_pb.n, book_value.d * mean_pb.d)

\* Lines 366-376, the PSG method:
\*   (revenue / shares) * (growth_rate_1_5 * 100) * 0.20
\* with the rate in tenths of a percent: revenue * rate / (50 * shares).
ValuePSG(rev, shares, rate) ==
    LET revenue == CurrentOf(rev)
    IN  IF revenue.nan \/ rate.nan THEN RatioNaN
        ELSE Ratio(revenue.v * rate.v, 50 * shares)

\* Lines 383-398: the base metric of the DCF family.
Capex(flow) ==
    IF "Capital Expenditure" \in DOMAIN flow THEN flow["Capital Expenditure"]
    ELSE Get(flow, "Capital Expenditures", Num(0))

BaseValue(meth, ni, ocf, flow) ==
    LET current_ocf == CurrentOf(ocf)
        capex == Capex(flow)
    IN  IF meth = MethodDFCF
        THEN (IF current_ocf.nan \/ capex.nan THEN NaN
              ELSE Num(current_ocf.v - Abs(capex.v)))
        ELSE IF meth = MethodDOCF THEN current_ocf
        ELSE CurrentOf(ni)

\* Lines 400-423: twenty years of compounding and discounting, in fixed
\* point: amounts in hundredths of a unit, the discount factor in
\* ten-thousandths, each product rounded down.  `val` is current_val after
\* year - 1 years, `factor` is 1 / (1 + discount_rate) ** (year - 1).
RECURSIVE PresentValueSum(_, _, _, _, _)
PresentValueSum(year, val, factor, rates, discount) ==
    IF year > 20 THEN 0
    ELSE LET g == IF year <= 5 THEN rates.growth_rate_1_5.v
                  ELSE IF year <= 10 THEN rates.growth_rate_6_10.v
                  ELSE rates.growth_rate_11_20.v
             current_val == (val * (1000 + g)) \div 1000
             f == (factor * 1000) \div (1000 + discount)
         IN  (current_val * f) \div 10000
             + PresentValueSum(year + 1, current_val, f, rates, discount)

\* Lines 425-427: (present values + cash - debt) / shares.
ValueDCF(base_value, rates, discount, sheet, shares) ==
    LET cash == CashAndEquivalents(sheet)
        debt == TotalDebt(sheet)
    IN  IF base_value.nan \/ rates.growth_rate_1_5.nan \/ cash.nan \/ debt.nan
        THEN RatioNaN
        ELSE Ratio(PresentValueSum(1, 100 * base_value.v, 10000, rates, discount)
                   + 100 * (cash.v - debt.v),
                   100 * shares)

\* f"Current {metric_name}"
CurrentMetricKey(meth) ==
    IF meth = MethodDFCF THEN "Current Free Cash Flow"
    ELSE IF meth = MethodDOCF THEN "Current Operating Cash Flow"
    ELSE "Current Net Income"

\* The keys of `assumptions` (their formatted values are left out).
Assumptions(meth) ==
    IF meth = MethodPB THEN {"Current Book Value Per Share", "Mean PB Ratio"}
    ELSE IF meth = MethodPSG
    THEN {"Sales Per Share", "Projected Growth Rate", "Fair PSG Constant"}
    ELSE {CurrentMetricKey(meth), "Growth Rate (Yr 1-5)",
          "Growth Rate (Yr 6-10)", "Growth Rate (Yr 11-20)", "Discount Rate",
          "Total Debt", "Cash & Equivalents", "Shares Outstanding"}

\* Line 442: (current_price / intrinsic_value) - 1 if intrinsic_value and
\* intrinsic_value != 0 else 0.  A NaN is truthy and differs from 0.
DiffPercent(price, value) ==
    IF value.nan THEN RatioNaN
    ELSE IF value.n = 0 THEN Ratio(0, 1)
    ELSE Ratio(price * value.d - value.n, value.n)

\* Lines 444-446: > 0.15 and < -0.15, both false for a NaN.
StatusOfMut(diff_percent) ==
    IF ~diff_percent.nan /\ 100 * diff_percent.n > 5 * diff_percent.d THEN "Overvalued"
    ELSE IF ~diff_percent.nan /\ 100 * diff_percent.n < -15 * diff_percent.d THEN "Undervalued"
    ELSE "Fairly Valued"
StatusOf(diff_percent) ==
    IF ~diff_percent.nan /\ 100 * diff_percent.n > 15 * diff_percent.d THEN "Overvalued"
    ELSE IF ~diff_percent.nan /\ 100 * diff_percent.n < -15 * diff_percent.d THEN "Undervalued"
    ELSE "Fairly Valued"

\* The two Error results, lines 185 and 459.
ErrorResult(meth) ==
    [status |-> "Error", intrinsicValue |-> Ratio(0, 1), differencePercent |-> Ratio(0, 1),
     method |-> meth, assumptions |-> {}]

\* Lines 336-455: the value by the selected method, then the result.  The
\* one place that can raise is the PB product with a None book value; the
\* `except` of lines 457-459 turns it into the Error result.
IntrinsicValue(meth, inf, sheet, flow, rev, ni, ocf, rates, discount, shares) ==
    IF meth = MethodPB THEN ValuePB(BookValue(inf, sheet, shares).val, MeanPB(inf))
    ELSE IF meth = MethodPSG THEN ValuePSG(rev, shares, rates.growth_rate_1_5)
    ELSE ValueDCF(BaseValue(meth, ni, ocf, flow), rates, discount, sheet, shares)

Raises(meth, inf, sheet, shares) ==
    meth = MethodPB /\ BookValue(inf, sheet, shares).none

ValuationResult(meth, inf, sheet, flow, rev, ni, ocf, rates, discount) ==
    LET price == Get(inf, "currentPrice", 0)
        shares_outstanding == Get(inf, "sharesOutstanding", 1)
        intrinsic_value == IntrinsicValue(meth, inf, sheet, flow, rev, ni, ocf, rates,
                                          discount, shares_outstanding)
        diff_percent == DiffPercent(price, intrinsic_value)
    IN  IF Raises(meth, inf, sheet, shares_outstanding) THEN ErrorResult("Error")
        ELSE [method |-> meth,
              intrinsicValue |-> intrinsic_value,
              currentPrice |-> price,
              differencePercent |-> diff_percent,
              status |-> StatusOf(diff_percent),
              assumptions |-> Assumptions(meth)]

Sectors == {StrTechnology, StrFinancialServices}
Industries == {StrSoftware, StrBanksRegional, StrInsuranceLife}
Countries == {StrUnitedStates, StrChina}

RevValues == {Num(100), Num(120), Num(144), Num(160), NaN}
NiValues == {Num(-5), Num(10), Num(20), NaN}
OcfValues == {Num(-5), Num(10), Num(40)}

Nums(s) == [i \in 1..Len(s) |-> Num(s[i])]
RevMenu == {<<>>, Nums(<<160, 120, 100>>), Nums(<<144, 120, 100>>), Nums(<<100, 120, 160>>)}
NiMenu == {<<>>, Nums(<<20, 10, 10>>), Nums(<<-5, 10, 20>>), Nums(<<-5, 10, -5>>)}
OcfMenu == {<<>>, Nums(<<40, 10, 10>>), Nums(<<10, 10, 10>>), Nums(<<-5, 10, 40>>)}

BetaValues ==
    {NoBeta} \cup { Beta(b) : b \in {-50, 0, 50, 79, 80, 84, 85, 94, 95, 100, 104, 105,
                                      114, 115, 124, 125, 134, 135, 144, 145,
                                      154, 155, 159, 160, 200} }

\* The inputs of the other families: a company quoted at 50 with 10 shares,
\* a book value and a balance sheet, and no growth estimates.
EmptyDict == [k \in {} |-> 0]
PlainInfo(sector, industry, country) ==
    [currentPrice |-> 50, sharesOutstanding |-> 10, bookValue |-> 20, priceToBook |-> 2,
     sector |-> sector, industry |-> industry, country |-> country]
FullSheet ==
    ("Total Debt" :> Num(30)) @@ ("Cash And Cash Equivalents" :> Num(10))
    @@ ("Stockholders Equity" :> Num(200))
DebtSheet ==
    ("Total Debt" :> Num(900))
    @@ ("Cash Cash Equivalents And Short Term Investments" :> Num(5))
NaNSheet == ("Total Debt" :> NaN) @@ ("Stockholders Equity" :> NaN)
SomeFlow == ("Capital Expenditure" :> Num(-8))
OtherFlow == ("Capital Expenditures" :> Num(50))

\* A key that may be absent.
OptKey(key, values) == {EmptyDict} \cup { key :> v : v \in values }

Estimate(period, trend) == [period |-> period, stockTrend |-> trend]
StrNextYear == <<"N", "e", "x", "t", " ", "Y", "e", "a", "r">>
StrNext5PerAnnum == StrNext5Years \o <<" ", "(", "p", "e", "r", " ", "a", "n", "n", "u", "m", ")">>
EstimatesMenu ==
    {<<>>,
     <<Estimate(StrNextYear, <<"1", "0", "%">>)>>,
     <<Estimate(StrNext5Years, <<"1", "2", ".", "5", "%">>)>>,
     <<Estimate(StrNextYear, <<"1", "0", "%">>), Estimate(StrNext5PerAnnum, <<"8", "%">>)>>,
     <<Estimate(StrNext5Years, <<"N", "/", "A">>)>>,
     <<Estimate(StrNext5Years, <<"N", "o", "n", "e">>), Estimate(StrNext5Years, <<"2", "0">>)>>,
     <<Estimate(StrNext5Years, <<"n", "a", "n">>)>>,
     <<Estimate(StrNext5Years, <<"4", "5", "%">>)>>,
     <<Estimate(StrNext5Years, <<"-", "2", "0", "%">>)>>,
     <<[period |-> StrNext5Years]>>}
HistoryMenu ==
    {<<>>, Nums(<<20, 10, 10>>), Nums(<<2, 1, 1, 1>>), Nums(<<1, 1, 1, 1>>),
     Nums(<<4, 1, 1, 1>>), Nums(<<1, 2, 2, 2>>), Nums(<<-1, 1, 1, 1>>),
     Nums(<<0, 1, 1, 1>>), Nums(<<1, 1, 1, 0>>), Nums(<<2, 1, 1, -1>>),
     <<Num(1), Num(1), Num(1), NaN>>, <<NaN, Num(1), Num(1), Num(1)>>}

\* One of the three series varies freely while the other two come from a
\* menu that covers every consistency flag and sign; or the beta and the
\* country vary; or the price, the share count and the book value do, each
\* possibly absent; or the growth estimates and the income history; or
\* the price around the value.
ValuationInit ==
    /\ \/ /\ revenue_series \in SeqsUpTo(RevValues, MaxSeriesLen)
          /\ net_income_series \in NiMenu
          /\ op_cash_flow_series \in OcfMenu
          /\ info \in { PlainInfo(sec, ind, StrUnitedStates) :
                          sec \in Sectors, ind \in {StrSoftware, StrBanksRegional} }
          /\ beta = Beta(100)
          /\ growth_estimates = <<>> /\ balance_sheet = FullSheet /\ cashflow = SomeFlow
       \/ /\ revenue_series \in RevMenu
          /\ net_income_series \in SeqsUpTo(NiValues, MaxSeriesLen)
          /\ op_cash_flow_series \in OcfMenu
          /\ info \in { PlainInfo(StrTechnology, ind, StrUnitedStates) :
                          ind \in {StrSoftware, StrInsuranceLife} }
          /\ beta = Beta(100)
          /\ growth_estimates = <<>> /\ balance_sheet = FullSheet /\ cashflow = SomeFlow
       \/ /\ revenue_series \in RevMenu
          /\ net_income_series \in NiMenu
          /\ op_cash_flow_series \in SeqsUpTo(OcfValues, MaxSeriesLen)
          /\ info = PlainInfo(StrTechnology, StrSoftware, StrUnitedStates)
          /\ beta = Beta(100)
          /\ growth_estimates = <<>> /\ balance_sheet = FullSheet /\ cashflow = SomeFlow
       \/ /\ revenue_series \in {Nums(<<160, 120, 100>>)}
          /\ net_income_series \in {Nums(<<-5, 10, 20>>), Nums(<<20, 10, 10>>)}
          /\ op_cash_flow_series \in {Nums(<<40, 10, 10>>)}
          /\ info \in { [PlainInfo(sec, ind, c) EXCEPT !.currentPrice = p,
                                                        !.sharesOutstanding = n] :
                          sec \in Sectors, ind \in Industries, c \in Countries,
                          p \in {0, 50}, n \in {0, 10} }
          /\ beta \in BetaValues
          /\ growth_estimates = <<>> /\ balance_sheet = FullSheet /\ cashflow = SomeFlow
       \/ /\ revenue_series = Nums(<<160, 120, 100>>)
          /\ net_income_series = Nums(<<20, 10, 10>>)
          /\ op_cash_flow_series = Nums(<<40, 10, 10>>)
          /\ info \in { [sector |-> sec, industry |-> StrSoftware,
                          country |-> StrUnitedStates] @@ p @@ n @@ b @@ r :
                          sec \in Sectors,
                          p \in OptKey("currentPrice", {-5, 0, 50}),
                          n \in OptKey("sharesOutstanding", {-10, 0, 10}),
                          b \in OptKey("bookValue", {0, 20}),
                          r \in OptKey("priceToBook", {0, 2}) }
          /\ beta = Beta(100)
          /\ growth_estimates = <<>>
          /\ balance_sheet \in {EmptyDict, FullSheet, DebtSheet}
          /\ cashflow = SomeFlow
       \/ /\ revenue_series \in {Nums(<<160, 120, 100>>), Nums(<<100, 120, 160>>)}
          /\ net_income_series \in HistoryMenu
          /\ op_cash_flow_series = Nums(<<40, 10, 10>>)
          /\ info \in { PlainInfo(StrTechnology, StrSoftware, c) : c \in Countries }
          /\ beta = Beta(100)
          /\ growth_estimates \in EstimatesMenu
          /\ balance_sheet = FullSheet /\ cashflow = SomeFlow
       \/ /\ revenue_series = Nums(<<160, 120, 100>>)
          /\ net_income_series \in {Nums(<<20, 10, 10>>), Nums(<<-5, 10, 20>>)}
          /\ op_cash_flow_series \in {Nums(<<40, 10, 10>>), Nums(<<-5, 10, 40>>)}
          /\ info \in { [PlainInfo(sec, StrSoftware, StrUnitedStates)
                             EXCEPT !.currentPrice = p, !.bookValue = b] :
                          sec \in Sectors, p \in {-5, 16, 18, 22, 24, 50},
                          b \in {-10, 0, 10} }
          /\ beta = Beta(100)
          /\ growth_estimates \in {<<>>, <<Estimate(StrNext5Years, <<"0", "%">>)>>}
          /\ balance_sheet \in {EmptyDict, FullSheet, DebtSheet, NaNSheet}
          /\ cashflow \in {EmptyDict, SomeFlow, OtherFlow}
    /\ method = ""
    /\ discount_rate = 0
    /\ growth_rates = EmptyDict
    /\ result = EmptyDict
    /\ v_pc = "call"

\* The whole function: the early Error return (lines 182-185), the method
\* (188-237), the discount rate (290-291), the growth schedule (293-322),
\* the value and the result (324-455), and the Error result of `except`.
CalculateIntrinsicValue ==
    /\ v_pc = "call"
    /\ IF Get(info, "currentPrice", 0) = 0 \/ Get(info, "sharesOutstanding", 1) = 0
       THEN /\ method' = "N/A"
            /\ discount_rate' = 0
            /\ growth_rates' = EmptyDict
            /\ result' = ErrorResult("N/A")
       ELSE LET sector == Get(info, "sector", <<>>)
                industry == Get(info, "industry", <<>>)
                country == Get(info, "country", StrUnitedStates)
                meth == SelectMethod(sector, industry, revenue_series,
                                     net_income_series, op_cash_flow_series)
                discount == DiscountRateFor(beta, country)
                rates == GrowthSchedule(growth_estimates, net_income_series, country)
            IN  /\ method' = meth
                /\ discount_rate' = discount
                /\ growth_rates' = rates
                /\ result' = ValuationResult(meth, info, balance_sheet, cashflow,
                                             revenue_series, net_income_series,
                                             op_cash_flow_series, rates, discount)
    /\ v_pc' = "done"
    /\ UNCHANGED <<info, revenue_series, net_income_series, op_cash_flow_series, beta,
                   growth_estimates, balance_sheet, cashflow>>

ValuationIdle ==
    /\ info = EmptyDict
    /\ revenue_series = <<>>
    /\ net_income_series = <<>>
    /\ op_cash_flow_series = <<>>
    /\ beta = NoBeta
    /\ growth_estimates = <<>>
    /\ balance_sheet = EmptyDict
    /\ cashflow = EmptyDict
    /\ method = ""
    /\ discount_rate = 0
    /\ growth_rates = EmptyDict
    /\ result = EmptyDict
    /\ v_pc = "idle"

\* Two requests in a row, each computing its discount rate: dr_calls keeps
\* the last two calls of get_discount_rate.
DiscountInit == dr_calls = <<>>

GetDiscountRate(b, c) ==
    LET call == [beta |-> b, country |-> c, rate |-> DiscountRateFor(b, c)]
    IN  dr_calls' = IF Len(dr_calls) < 2 THEN Append(dr_calls, call)
                    ELSE <<dr_calls[2], call>>

DiscountIdle == dr_calls = <<>>

----------------------------------------------------------------------------
(* get_stock_data, the composite score: main.py 869-1244 *)

\* The text of each criterion name, for the substring tests of lines 1233-1235.
NameText(name) ==
    CASE name = "Historical Trend (20Y)" ->
           <<"H", "i", "s", "t", "o", "r", "i", "c", "a", "l", " ", "T", "r", "e", "n", "d", " ", "(", "2", "0", "Y", ")">>
      [] name = "Net Income Increasing" ->
           <<"N", "e", "t", " ", "I", "n", "c", "o", "m", "e", " ", "I", "n", "c", "r", "e", "a", "s", "i", "n", "g">>
      [] name = "Operating Income Increasing" ->
           <<"O", "p", "e", "r", "a", "t", "i", "n", "g", " ", "I", "n", "c", "o", "m", "e", " ", "I", "n", "c", "r", "e", "a", "s", "i", "n", "g">>
      [] name = "Operating Cash Flow Increasing" ->
           <<"O", "p", "e", "r", "a", "t", "i", "n", "g", " ", "C", "a", "s", "h", " ", "F", "l", "o", "w", " ", "I", "n", "c", "r", "e", "a", "s", "i", "n", "g">>
      [] name = "Revenue Increasing" ->
           <<"R", "e", "v", "e", "n", "u", "e", " ", "I", "n", "c", "r", "e", "a", "s", "i", "n", "g">>
      [] name = "Gross Margin Stable/Increasing" ->
           <<"G", "r", "o", "s", "s", " ", "M", "a", "r", "g", "i", "n", " ", "S", "t", "a", "b", "l", "e", "/", "I", "n", "c", "r", "e", "a", "s", "i", "n", "g">>
      [] name = "Net Margin Stable/Increasing" ->
           <<"N", "e", "t", " ", "M", "a", "r", "g", "i", "n", " ", "S", "t", "a", "b", "l", "e", "/", "I", "n", "c", "r", "e", "a", "s", "i", "n", "g">>
      [] name = "ROE > 12-15%" ->
           <<"R", "O", "E", " ", ">", " ", "1", "2", "-", "1", "5", "%">>
      [] name = "ROIC > 12-15%" ->
           <<"R", "O", "I", "C", " ", ">", " ", "1", "2", "-", "1", "5", "%">>
      [] name = "Revenue > AR or Growing Faster" ->
           <<"R", "e", "v", "e", "n", "u", "e", " ", ">", " ", "A", "R", " ", "o", "r", " ", "G", "r", "o", "w", "i", "n", "g", " ", "F", "a", "s", "t", "e", "r">>
      [] name = "CCC Stable/Reducing" ->
           <<"C", "C", "C", " ", "S", "t", "a", "b", "l", "e", "/", "R", "e", "d", "u", "c", "i", "n", "g">>
      [] name = "Economic Moat" ->
           <<"E", "c", "o", "n", "o", "m", "i", "c", " ", "M", "o", "a", "t">>
      [] name = "Debt/EBITDA < 3" ->
           <<"D", "e", "b", "t", "/", "E", "B", "I", "T", "D", "A", " ", "<", " ", "3">>
      [] name = "Debt Servicing Ratio < 30%" ->
           <<"D", "e", "b", "t", " ", "S", "e", "r", "v", "i", "c", "i", "n", "g", " ", "R", "a", "t", "i", "o", " ", "<", " ", "3", "0", "%">>
      [] name = "Current Ratio > 1.5" ->
           <<"C", "u", "r", "r", "e", "n", "t", " ", "R", "a", "t", "i", "o", " ", ">", " ", "1", ".", "5">>
      [] name = "Gearing Ratio < 45%" ->
           <<"G", "e", "a", "r", "i", "n", "g", " ", "R", "a", "t", "i", "o", " ", "<", " ", "4", "5", "%">>

StrHistoricalTrend == <<"H", "i", "s", "t", "o", "r", "i", "c", "a", "l", " ", "T", "r", "e", "n", "d">>
StrNetIncomeIncreasing == <<"N", "e", "t", " ", "I", "n", "c", "o", "m", "e", " ", "I", "n", "c", "r", "e", "a", "s", "i", "n", "g">>
StrOperatingIncomeIncreasing == <<"O", "p", "e", "r", "a", "t", "i", "n", "g", " ", "I", "n", "c", "o", "m", "e", " ", "I", "n", "c", "r", "e", "a", "s", "i", "n", "g">>

\* Lines 1162-1177
weights_ccc ==
    ("Historical Trend (20Y)" :> 15) @@
    ("Net Income Increasing" :> 5) @@
    ("Operating Income Increasing" :> 5) @@
    ("Operating Cash Flow Increasing" :> 5) @@
    ("Revenue Increasing" :> 10) @@
    ("Gross Margin Stable/Increasing" :> 10) @@
    ("Net Margin Stable/Increasing" :> 5) @@
    ("ROE > 12-15%" :> 5) @@
    ("ROIC > 12-15%" :> 15) @@
    ("Revenue > AR or Growing Faster" :> 1) @@
    ("CCC Stable/Reducing" :> 3) @@
    ("Economic Moat" :> 20) @@
    ("Debt/EBITDA < 3" :> 5) @@
    ("Debt Servicing Ratio < 30%" :> 1) @@
    ("Current Ratio > 1.5" :> 5)

\* Lines 1180-1195
weights_reit ==
    ("Historical Trend (20Y)" :> 10) @@
    ("Net Income Increasing" :> 3) @@
    ("Operating Income Increasing" :> 3) @@
    ("Operating Cash Flow Increasing" :> 3) @@
    ("Revenue Increasing" :> 3) @@
    ("Gross Margin Stable/Increasing" :> 5) @@
    ("Net Margin Stable/Increasing" :> 5) @@
    ("ROE > 12-15%" :> 10) @@
    ("ROIC > 12-15%" :> 15) @@
    ("Revenue > AR or Growing Faster" :> 4) @@
    ("Economic Moat" :> 5) @@
    ("Debt/EBITDA < 3" :> 15) @@
    ("Debt Servicing Ratio < 30%" :> 15) @@
    ("Current Ratio > 1.5" :> 5) @@
    ("Gearing Ratio < 45%" :> 5)

\* Lines 1198-1212
weights_standard ==
    ("Historical Trend (20Y)" :> 5) @@
    ("Net Income Increasing" :> 10) @@
    ("Operating Income Increasing" :> 10) @@
    ("Operating Cash Flow Increasing" :> 10) @@
    ("Revenue Increasing" :> 5) @@
    ("Gross Margin Stable/Increasing" :> 10) @@
    ("Net Margin Stable/Increasing" :> 5) @@
    ("ROE > 12-15%" :> 15) @@
    ("ROIC > 12-15%" :> 15) @@
    ("Revenue > AR or Growing Faster" :> 5) @@
    ("Economic Moat" :> 20) @@
    ("Debt/EBITDA < 3" :> 5) @@
    ("Debt Servicing Ratio < 30%" :> 2) @@
    ("Current Ratio > 1.5" :> 3)

\* Lines 774-779
is_reit(industry, sector) == Contains(industry, StrREIT) \/ Contains(sector, StrRealEstate)

\* Lines 1063-1066: recent_inventory > 0, false for a NaN.
has_physical_goods(recent_inventory) == ~recent_inventory.nan /\ recent_inventory.v > 0

\* series.iloc[0] if not series.empty else 0
FirstOrZero(series) == IF series = <<>> THEN Num(0) ELSE series[1]

\* One moat factor, in halves of a point: `if x > high: += 1` and
\* `elif x > low: += 0.5`.  A NaN compares false both times.
MoatFactor(x, high, low) ==
    IF x.nan THEN 0 ELSE IF x.v > high THEN 2 ELSE IF x.v > low THEN 1 ELSE 0

\* Lines 1103-1127.  Margins are in percent, ROIC and revenue growth in
\* tenths of a percent, revenue in billions.
MoatScore2(m) ==
    MoatFactor(FirstOrZero(m.gross_margin_series), 40, 20)
    + MoatFactor(m.roic, 150, 100)
    + MoatFactor(FirstOrZero(m.revenue_series), 100, 10)
    + MoatFactor(FirstOrZero(m.net_margin_series), 20, 10)
    + MoatFactor(m.revenue_growth, 150, 50)

\* Lines 1129-1131: moat_score > 3, moat_score >= 2.
MoatTypeMut(score2) ==
    IF score2 >= 6 THEN "Wide" ELSE IF score2 >= 4 THEN "Narrow" ELSE "None"
MoatType(score2) ==
    IF score2 > 6 THEN "Wide" ELSE IF score2 >= 4 THEN "Narrow" ELSE "None"

\* Line 1133
MoatPass(type) == type \in {"Wide", "Narrow"}

PassFail(b) == IF b THEN "Pass" ELSE "Fail"
Criterion(name, pass) == [name |-> name, status |-> PassFail(pass)]

\* Lines 1000-1154: the criteria in the order they are appended.  `in` holds
\* the outcome of each test (the display value of a criterion is left out).
ScoreCriteriaMut(in) ==
    <<Criterion("Historical Trend (20Y)", in.trend_pass)>>
    \o <<Criterion("Net Income Increasing", in.ni_pass)>>
    \o (IF in.oi_pass THEN <<Criterion("Operating Income Increasing", TRUE)>> ELSE <<>>)
    \o <<Criterion("Operating Cash Flow Increasing", in.ocf_pass),
         Criterion("Revenue Increasing", in.rev_pass),
         Criterion("Gross Margin Stable/Increasing", in.gm_pass),
         Criterion("Net Margin Stable/Increasing", in.nm_pass),
         Criterion("ROE > 12-15%", in.roe_pass),
         Criterion("ROIC > 12-15%", in.roic_pass),
         Criterion("Revenue > AR or Growing Faster", in.rev_ar_pass)>>
    \o (IF in.has_physical_goods /\ in.ccc_values
        THEN <<Criterion("CCC Stable/Reducing", in.ccc_pass)>> ELSE <<>>)
    \o <<Criterion("Economic Moat", in.moat_pass),
         Criterion("Debt/EBITDA < 3", in.de_pass),
         Criterion("Debt Servicing Ratio < 30%", in.dsr_pass),
         Criterion("Current Ratio > 1.5", in.cr_pass)>>
    \o (IF in.is_reit THEN <<Criterion("Gearing Ratio < 45%", in.gr_pass)>> ELSE <<>>)
ScoreCriteria(in) ==
    <<Criterion("Historical Trend (20Y)", in.trend_pass)>>
    \o (IF in.ni_pass THEN <<Criterion("Net Income Increasing", TRUE)>>
        ELSE IF in.oi_pass THEN <<Criterion("Operating Income Increasing", TRUE)>>
        ELSE <<Criterion("Net Income Increasing", FALSE)>>)
    \o <<Criterion("Operating Cash Flow Increasing", in.ocf_pass),
         Criterion("Revenue Increasing", in.rev_pass),
         Criterion("Gross Margin Stable/Increasing", in.gm_pass),
         Criterion("Net Margin Stable/Increasing", in.nm_pass),
         Criterion("ROE > 12-15%", in.roe_pass),
         Criterion("ROIC > 12-15%", in.roic_pass),
         Criterion("Revenue > AR or Growing Faster", in.rev_ar_pass)>>
    \o (IF in.has_physical_goods /\ in.ccc_values
        THEN <<Criterion("CCC Stable/Reducing", in.ccc_pass)>> ELSE <<>>)
    \o <<Criterion("Economic Moat", in.moat_pass),
         Criterion("Debt/EBITDA < 3", in.de_pass),
         Criterion("Debt Servicing Ratio < 30%", in.dsr_pass),
         Criterion("Current Ratio > 1.5", in.cr_pass)>>
    \o (IF in.is_reit THEN <<Criterion("Gearing Ratio < 45%", in.gr_pass)>> ELSE <<>>)

\* Lines 1215-1221
CurrentWeightsMut(reit, goods) ==
    IF goods THEN weights_ccc
    ELSE IF reit THEN weights_reit
    ELSE weights_standard
CurrentWeights(reit, goods) ==
    IF reit THEN weights_reit
    ELSE IF goods THEN weights_ccc
    ELSE weights_standard

\* What the criteria are built from: each test's own outcome, and the
\* outcomes computed from the company and the moat inputs.
ScoreInputs(in, company, moat) ==
    in @@ [is_reit |-> is_reit(company.industry, company.sector),
           has_physical_goods |-> has_physical_goods(company.recent_inventory),
           moat_pass |-> MoatPass(MoatType(MoatScore2(moat)))]

\* Lines 1232-1235
LookupName(name) ==
    LET t == NameText(name)
        a == IF Contains(t, StrHistoricalTrend) THEN "Historical Trend (20Y)" ELSE name
        b == IF Contains(t, StrNetIncomeIncreasing) THEN "Net Income Increasing" ELSE a
    IN  IF Contains(t, StrOperatingIncomeIncreasing) THEN "Operating Income Increasing" ELSE b

\* current_weights.get(lookup_name, 0)
WeightOf(weights, name) ==
    IF LookupName(name) \in DOMAIN weights THEN weights[LookupName(name)] ELSE 0

\* One pass of the loop body, lines 1237-1244.
ScoreStepMut(acc, criterion, weights) ==
    LET weight == WeightOf(weights, criterion.name)
    IN  IF criterion.status = "Pass"
        THEN [total |-> acc.total + weight, max |-> acc.max + weight]
        ELSE acc
ScoreStep(acc, criterion, weights) ==
    LET weight == WeightOf(weights, criterion.name)
    IN  [total |-> IF criterion.status = "Pass" THEN acc.total + weight ELSE acc.total,
         max   |-> acc.max + weight]

\* Lines 1223-1244
RECURSIVE ScoreLoop(_, _, _)
ScoreLoop(criteria, weights, acc) ==
    IF criteria = <<>> THEN acc
    ELSE ScoreLoop(Tail(criteria), weights, ScoreStep(acc, criteria[1], weights))

ScoreFlags == {"trend_pass", "ocf_pass", "rev_pass", "gm_pass", "nm_pass", "roe_pass",
               "roic_pass", "rev_ar_pass", "de_pass", "dsr_pass", "cr_pass"}
ShapeFlags == {"ni_pass", "oi_pass", "ccc_values", "ccc_pass", "gr_pass"}

Company(sector, industry, inventory) ==
    [sector |-> sector, industry |-> industry, recent_inventory |-> inventory]
StandardCompany == Company(StrTechnology, StrSoftware, Num(0))
ReitCompany == Company(StrRealEstate, StrReitRetail, Num(0))
GoodsCompany == Company(StrTechnology, StrSoftware, Num(5))
Companies ==
    { Company(sec, ind, inv) :
        sec \in {StrTechnology, StrRealEstate},
        ind \in {StrSoftware, StrReitRetail, StrRealEstateServices},
        inv \in {Num(-1), Num(0), Num(5), NaN} }

\* The moat scenario (45%, 16%, 150e9, 25%, 20%), and a company with no
\* moat at all.
WideMoat ==
    [gross_margin_series |-> <<Num(45)>>, roic |-> Num(160),
     revenue_series |-> <<Num(150)>>, net_margin_series |-> <<Num(25)>>,
     revenue_growth |-> Num(200)]
NoMoat ==
    [gross_margin_series |-> <<>>, roic |-> Num(0), revenue_series |-> <<>>,
     net_margin_series |-> <<>>, revenue_growth |-> Num(0)]
FirstValues(S) == {<<>>} \cup { <<Num(x)>> : x \in S } \cup {<<NaN>>}
MoatInputs ==
    [gross_margin_series : FirstValues({20, 30, 40, 45}),
     roic : { Num(x) : x \in {100, 120, 150, 160} } \cup {NaN},
     revenue_series : FirstValues({10, 50, 100, 150}),
     net_margin_series : FirstValues({10, 15, 20, 25}),
     revenue_growth : { Num(x) : x \in {50, 100, 150, 200} } \cup {NaN}]

\* Either the eleven unconditional outcomes vary over three company shapes
\* and two moats, or the conditional ones and the company vary with the
\* others all passing or all failing, or the moat inputs vary.
ScoreInit ==
    /\ \/ /\ \E f \in [ScoreFlags -> BOOLEAN] :
             \E goods \in BOOLEAN :
                /\ sc_in = f @@ [ni_pass |-> TRUE, oi_pass |-> FALSE,
                                 ccc_values |-> goods, ccc_pass |-> FALSE,
                                 gr_pass |-> TRUE]
                /\ sc_company \in (IF goods THEN {GoodsCompany}
                                    ELSE {StandardCompany, ReitCompany})
          /\ moat_in \in {WideMoat, NoMoat}
       \/ /\ \E all \in BOOLEAN :
             \E g \in [ShapeFlags -> BOOLEAN] :
                sc_in = [n \in ScoreFlags |-> all] @@ g
          /\ sc_company \in Companies
          /\ moat_in = NoMoat
       \/ /\ sc_in = [n \in ScoreFlags \cup ShapeFlags |-> TRUE]
          /\ sc_company = StandardCompany
          /\ moat_in \in MoatInputs
    /\ moat_score2 = 0
    /\ moat_type = ""
    /\ current_weights = <<>>
    /\ score_criteria = <<>>
    /\ total_score = 0
    /\ max_score = 0
    /\ sc_pc = "call"

ComputeScore ==
    /\ sc_pc = "call"
    /\ LET in == ScoreInputs(sc_in, sc_company, moat_in)
           criteria == ScoreCriteria(in)
           weights == CurrentWeights(in.is_reit, in.has_physical_goods)
           acc == ScoreLoop(criteria, weights, [total |-> 0, max |-> 0])
       IN  /\ moat_score2' = MoatScore2(moat_in)
           /\ moat_type' = MoatType(MoatScore2(moat_in))
           /\ current_weights' = weights
           /\ score_criteria' = criteria
           /\ total_score' = acc.total
           /\ max_score' = acc.max
    /\ sc_pc' = "done"
    /\ UNCHANGED <<sc_in, sc_company, moat_in>>

ScoreIdle ==
    /\ sc_in = [n \in ScoreFlags \cup ShapeFlags |-> FALSE]
    /\ sc_company = StandardCompany
    /\ moat_in = NoMoat
    /\ moat_score2 = 0
    /\ moat_type = ""
    /\ current_weights = <<>>
    /\ score_criteria = <<>>
    /\ total_score = 0
    /\ max_score = 0
    /\ sc_pc = "idle"

----------------------------------------------------------------------------
(* get_validated_support_levels, Logic 1: the SMA bounce test on the bars,
   main.py 40-86 *)

\* A row of a price history.
Bar(low, close) == [low |-> low, close |-> close]

\* The sum of df['Close'] over the rows from..to, by halves.
RECURSIVE WindowSum(_, _, _)
WindowSum(df, from, to) ==
    IF from > to THEN 0
    ELSE IF from = to THEN df[from].close
    ELSE LET mid == (from + to) \div 2
         IN  WindowSum(df, from, mid) + WindowSum(df, mid + 1, to)

\* df['Close'].rolling(window=period).mean() at row i, defined from row
\* `period` on.  The closes drawn below are multiples of 600, which every
\* window divides, so the mean is a whole number and the division exact.
Sma(df, i, period) == WindowSum(df, i - period + 1, i) \div period

\* df.dropna(subset=[sma_col]): the rows with an SMA.
ValidPoints(df, period) == period..Len(df)

\* low <= sma_val * 1.01 and close >= sma_val
IsBounceMut(row, sma_val) == row.low <= sma_val /\ row.close >= sma_val
IsBounce(row, sma_val) == 100 * row.low <= 101 * sma_val /\ row.close >= sma_val

BounceCount(df, period) ==
    Cardinality({ i \in ValidPoints(df, period) : IsBounce(df[i], Sma(df, i, period)) })

\* Lines 56-86 for one window of one timeframe: `slot` numbers the pair.
WindowCandidates(slot, df, price) ==
    LET bounce_count == BounceCount(df, SlotPeriod(slot))
        current_sma == Sma(df, Len(df), SlotPeriod(slot))
    IN  IF bounce_count >= 3 /\ current_sma < price
        THEN <<SmaCandidate(slot, [sma |-> current_sma, bounces |-> bounce_count])>>
        ELSE <<>>

\* Lines 53-86 for one timeframe: skipped under 200 rows.
FrameCandidates(t, df, price) ==
    IF Len(df) < 200 THEN <<>>
    ELSE WindowCandidates(4 * (t - 1) + 1, df, price)
         \o WindowCandidates(4 * (t - 1) + 2, df, price)
         \o WindowCandidates(4 * (t - 1) + 3, df, price)
         \o WindowCandidates(4 * (t - 1) + 4, df, price)

BounceCandidates(frames, price) ==
    FrameCandidates(1, frames[1], price)
    \o FrameCandidates(2, frames[2], price)
    \o FrameCandidates(3, frames[3], price)

\* A history of n rows: a steady decline of 600 a row down to a close of
\* 120000, then the rows of `tail`.
Declining(n, tail) ==
    [i \in 1..n |->
        IF i > n - Len(tail) THEN tail[i - (n - Len(tail))]
        ELSE Bar(120000 + 600 * (n - Len(tail) - i) - 300,
                 120000 + 600 * (n - Len(tail) - i))]

\* Rows that come within 1% of the 50-row average and close above it,
\* that touch it and close above every average, and that go on declining.
NearBar == Bar(135600, 138000)
WideBar == Bar(130000, 180000)
TrendBar == Bar(119100, 119400)
TailBars == {NearBar, WideBar, TrendBar}
FrameLengths == {199, 203}
DailyFrames == {<<Bar(149000, 150000)>>, <<Bar(199000, 200400)>>}

\* One long or nearly long monthly history over a short daily one; or
\* all three timeframes of 200 rows and more; or no daily history.
BounceInit ==
    /\ \/ \E n \in FrameLengths, tail \in [1..4 -> TailBars], daily \in DailyFrames :
             b_frames = <<Declining(n, tail), <<>>, daily>>
       \/ \E n \in {200, 204}, tail \in [1..4 -> {NearBar, WideBar}] :
             b_frames = <<Declining(n, tail), Declining(n, tail),
                          Declining(n, tail \o <<Bar(199000, 200400)>>)>>
       \/ \E tail \in [1..4 -> {NearBar, WideBar}] :
             b_frames = <<Declining(203, tail), <<>>, <<>>>>
    /\ b_price = 0
    /\ b_candidates = <<>>
    /\ b_pc = "call"

BounceTest ==
    /\ b_pc = "call"
    /\ LET hist_1y_d == b_frames[3]
           price == CurrentPrice([i \in 1..Len(hist_1y_d) |-> hist_1y_d[i].close])
       IN  /\ b_price' = price
           /\ b_candidates' = BounceCandidates(b_frames, price)
    /\ b_pc' = "done"
    /\ UNCHANGED b_frames

BounceIdle ==
    /\ b_frames = <<>>
    /\ b_price = 0
    /\ b_candidates = <<>>
    /\ b_pc = "idle"

----------------------------------------------------------------------------
(* get_stock_data, the 'Historical Trend (20Y)' criterion: main.py 944-1000 *)

\* A row of `history`: its age in days before now, and its close.
Point(age, close) == [age |-> age, close |-> close]

\* history[history.index >= cutoff_date], the cutoff 20 years (7305 days)
\* before now.
Hist20y(history) == SelectSeq(history, LAMBDA p : p.age <= 7305)

\* hist_20y["Close"].max(), which skips NaN and is NaN when nothing is left.
RECURSIVE MaxClose(_)
MaxClose(rows) ==
    IF rows = <<>> THEN NaN
    ELSE LET rest == MaxClose(Tail(rows))
             c == rows[1].close
         IN  IF c.nan THEN rest
             ELSE IF rest.nan \/ c.v > rest.v THEN c ELSE rest

\* years = days / 365.25, between two whole numbers of years.
YearsOver1(days) == 4 * days > 1461
YearsFloor(days) == (4 * days) \div 1461
YearsCeil(days) == (4 * days + 1460) \div 1461

\* 1.05 ** y in hundred-thousandths, rounded down and rounded up.
RECURSIVE GrowthLow(_)
GrowthLow(y) == IF y = 0 THEN 100000 ELSE (GrowthLow(y - 1) * 105) \div 100
RECURSIVE GrowthHigh(_)
GrowthHigh(y) == IF y = 0 THEN 100000 ELSE (GrowthHigh(y - 1) * 105 + 99) \div 100

\* Lines 969-973: what is known of cagr = (end / start) ** (1 / years) - 1
\* against 0 and 0.05: "negative", "low" (0 <= cagr < 0.05), "ok" or "nan".
\* The power is irrational in general; where whole numbers cannot place it
\* on one side of 1.05 ** years both sides are kept.  A NaN or negative
\* end price gives NaN (numpy floats), a NaN start price is not > 0.
CagrClasses(start_price, end_price, days) ==
    IF ~(YearsOver1(days) /\ ~start_price.nan /\ start_price.v > 0) THEN {"low"}
    ELSE IF end_price.nan \/ end_price.v < 0 THEN {"nan"}
    ELSE IF end_price.v < start_price.v THEN {"negative"}
    ELSE IF end_price.v * 100000 < start_price.v * GrowthLow(YearsFloor(days)) THEN {"low"}
    ELSE IF end_price.v * 100000 >= start_price.v * GrowthHigh(YearsCeil(days)) THEN {"ok"}
    ELSE {"low", "ok"}

\* Line 976: drawdown = (max - end) / max if max > 0 else 0, against 0.30.
DrawdownOver30(max_price, end_price) ==
    /\ ~max_price.nan /\ max_price.v > 0 /\ ~end_price.nan
    /\ 10 * (max_price.v - end_price.v) > 3 * max_price.v

\* Lines 979-994
TrendCase(cagr, over30) ==
    IF cagr = "negative" THEN [pass |-> FALSE, val |-> "Downtrend"]
    ELSE IF cagr = "low" THEN [pass |-> FALSE, val |-> "Stagnant"]
    ELSE IF over30 THEN [pass |-> FALSE, val |-> "Declining"]
    ELSE [pass |-> TRUE, val |-> "Increasing"]

\* Lines 945-994: trend_pass and the label of trend_val.
HistoricalTrends(history) ==
    LET hist_20y == Hist20y(history)
    IN  IF hist_20y = <<>> THEN {[pass |-> FALSE, val |-> "N/A"]}
        ELSE LET start_price == hist_20y[1].close
                 end_price == hist_20y[Len(hist_20y)].close
                 max_price == MaxClose(hist_20y)
                 days == hist_20y[1].age - hist_20y[Len(hist_20y)].age
             IN  { TrendCase(c, DrawdownOver30(max_price, end_price)) :
                     c \in CagrClasses(start_price, end_price, days) }

\* Ages: beyond the 20 years, 20 years less a day, 4 years and a month,
\* a year and a day, a year, a day, now.
HistoryAges == {7400, 7304, 1500, 366, 365, 1, 0}
HistoryCloses == {Num(0), Num(100), Num(104), Num(128), Num(200), Num(300), NaN}

\* Rows in the order of time.
IsHistory(h) == \A i \in 1..(Len(h) - 1) : h[i].age > h[i + 1].age

MaxHistoryLen == 3

HistoryInit ==
    /\ h_history \in { h \in SeqsUpTo({ Point(a, c) : a \in HistoryAges, c \in HistoryCloses },
                                      MaxHistoryLen) :
                         /\ IsHistory(h)
                         /\ \A i \in 2..(Len(h) - 1) : h[i].age \in {1500, 366} }
    /\ h_pass = FALSE
    /\ h_val = "N/A"
    /\ h_criterion = <<>>
    /\ h_pc = "call"

HistoricalTrend ==
    /\ h_pc = "call"
    /\ \E t \in HistoricalTrends(h_history) :
          /\ h_pass' = t.pass
          /\ h_val' = t.val
          /\ h_criterion' = <<Criterion("Historical Trend (20Y)", t.pass)>>
    /\ h_pc' = "done"
    /\ UNCHANGED h_history

HistoryIdle ==
    /\ h_history = <<>>
    /\ h_pass = FALSE
    /\ h_val = "N/A"
    /\ h_criterion = <<>>
    /\ h_pc = "idle"

----------------------------------------------------------------------------
(* clean_nan, applied by read_stock to the whole response: main.py 1342-1351,
   1432-1435 *)

\* Python values: floats (finite, in tenths, or NaN or an infinity), other
\* scalars, lists, and dicts as the sequence of their items in order.
PyFloat(x) == [t |-> "float", kind |-> "finite", v |-> x]
PyNaN == [t |-> "float", kind |-> "nan", v |-> 0]
PyInf == [t |-> "float", kind |-> "inf", v |-> 0]
PyNegInf == [t |-> "float", kind |-> "-inf", v |-> 0]
PyInt(x) == [t |-> "int", v |-> x]
PyStr(s) == [t |-> "str", s |-> s]
PyNone == [t |-> "None"]
PyList(items) == [t |-> "list", items |-> items]
PyDict(items) == [t |-> "dict", items |-> items]
Item(k, val) == [k |-> k, val |-> val]

\* math.isnan(obj) or math.isinf(obj)
IsNanOrInf(obj) == obj.kind \in {"nan", "inf", "-inf"}

RECURSIVE CleanNanMut(_)
CleanNanMut(obj) ==
    IF obj.t = "float" THEN (IF obj.kind = "nan" THEN PyNone ELSE obj)
    ELSE IF obj.t = "dict"
    THEN PyDict([i \in 1..Len(obj.items) |->
                    Item(obj.items[i].k, CleanNanMut(obj.items[i].val))])
    ELSE IF obj.t = "list"
    THEN PyList([i \in 1..Len(obj.items) |-> CleanNanMut(obj.items[i])])
    ELSE obj

RECURSIVE clean_nan(_)
clean_nan(obj) ==
    IF obj.t = "float" THEN (IF IsNanOrInf(obj) THEN PyNone ELSE obj)
    ELSE IF obj.t = "dict"
    THEN PyDict([i \in 1..Len(obj.items) |->
                    Item(obj.items[i].k, clean_nan(obj.items[i].val))])
    ELSE IF obj.t = "list"
    THEN PyList([i \in 1..Len(obj.items) |-> clean_nan(obj.items[i])])
    ELSE obj

Scalars == {PyFloat(15), PyNaN, PyInf, PyNegInf, PyInt(1), PyStr("N/A"), PyNone}
Fillers == {PyFloat(15), PyNaN, PyNegInf}

MaxDepth == 3

\* The values nested at most d deep: a scalar, an empty container, or a
\* list or a dict holding a value one level shallower, alone or after a
\* filler.
RECURSIVE PyValues(_)
PyValues(d) ==
    IF d = 0 THEN Scalars \cup {PyList(<<>>), PyDict(<<>>)}
    ELSE LET inner == PyValues(d - 1)
         IN  PyValues(0)
             \cup { PyList(<<x>>) : x \in inner }
             \cup { PyList(<<f, x>>) : f \in Fillers, x \in inner }
             \cup { PyDict(<<Item("score", x)>>) : x \in inner }
             \cup { PyDict(<<Item("beta", f), Item("score", x)>>) : f \in Fillers, x \in inner }

CleanInit ==
    /\ c_data \in PyValues(MaxDepth)
    /\ c_response = PyNone
    /\ c_pc = "call"

\* read_stock: return clean_nan(data)
ReadStock ==
    /\ c_pc = "call"
    /\ c_response' = clean_nan(c_data)
    /\ c_pc' = "done"
    /\ UNCHANGED c_data

CleanIdle ==
    /\ c_data = PyNone
    /\ c_response = PyNone
    /\ c_pc = "idle"

----------------------------------------------------------------------------
(* get_stock_data, the growth estimates from the provider to the estimator:
   main.py 544-569, 709-717, 1267, 1303-1312 *)

\* A pandas DataFrame of rows, a Python list of records, or None.
DataFrame(rows) == [type |-> "DataFrame", rows |-> rows]
PyRecords(records) == [type |-> "list", rows |-> records]
NoFrame == [type |-> "None", rows |-> <<>>]

\* A row of the provider's estimates: its period label and its stock trend
\* in tenths of a percent.
EstimateRow(period, trend) == [period |-> period, stockTrend |-> trend]

\* Lines 544-569: growth_estimates_data and growth_estimates after the
\* fetch.  `ge` is what the provider returned, `raised` whether it raised.
FetchedData(ge, raised) ==
    IF ~raised /\ ge.type = "DataFrame" /\ ge.rows # <<>>
    THEN ge.rows            \* ge.to_dict(orient='records')
    ELSE <<>>
FetchedEstimates(ge, raised) ==
    IF raised THEN PyRecords(<<>>) ELSE PyRecords(FetchedData(ge, raised))

\* Lines 709-717: growth_estimates_data is emptied, and refilled only from
\* a growth_estimates that is a non-empty DataFrame.
ProcessedData(estimates) ==
    IF estimates.type = "DataFrame" /\ estimates.rows # <<>>
    THEN estimates.rows
    ELSE <<>>

EstimateRows ==
    { EstimateRow(p, t) : p \in {"0y", "+1y", "+5y", "Next 5 Years"}, t \in {Num(125), NaN} }

MaxEstimates == 2

GrowthInit ==
    /\ \/ /\ g_provider \in { DataFrame(rows) : rows \in SeqsUpTo(EstimateRows, MaxEstimates) }
          /\ g_raised = FALSE
       \/ /\ g_provider = NoFrame
          /\ g_raised \in BOOLEAN
    /\ g_fetched = <<>>
    /\ g_estimates = PyRecords(<<>>)
    /\ g_data = <<>>
    /\ g_handed = <<>>
    /\ g_response = <<>>
    /\ g_pc = "call"

\* get_stock_data, as far as the growth estimates go: the fetch, the
\* processing for the table, the call of calculate_intrinsic_value (line
\* 1306) and the response fields (lines 1267 and 1312).
GetGrowthEstimates ==
    /\ g_pc = "call"
    /\ LET fetched == FetchedData(g_provider, g_raised)
           estimates == FetchedEstimates(g_provider, g_raised)
           data == ProcessedData(estimates)
       IN  /\ g_fetched' = fetched
           /\ g_estimates' = estimates
           /\ g_data' = data
           /\ g_handed' = data
           /\ g_response' = data
    /\ g_pc' = "done"
    /\ UNCHANGED <<g_provider, g_raised>>

GrowthIdle ==
    /\ g_provider = NoFrame
    /\ g_raised = FALSE
    /\ g_fetched = <<>>
    /\ g_estimates = PyRecords(<<>>)
    /\ g_data = <<>>
    /\ g_handed = <<>>
    /\ g_response = <<>>
    /\ g_pc = "idle"

----------------------------------------------------------------------------
(* evaluate_moat: main.py 1437-1511 *)

models_to_try == <<"gemini-2.5-flash-lite", "gemini-2.5-flash">>

\* What a request to a model can end in: a requests exception (the post,
\* raise_for_status, or a body that is not JSON), or a JSON result of one
\* of these shapes.
RequestErrors == {"Timeout", "ConnectionError", "HTTPError"}
ResultShapes == {"no candidates key", "empty candidates", "no content", "no parts",
                 "text is not JSON", "text is JSON"}
ParsedResults == {"all High", "all None"}

Responses ==
    { [kind |-> "exception", error |-> e, shape |-> "", parsed |-> ""] : e \in RequestErrors }
    \cup { [kind |-> "result", error |-> "", shape |-> s, parsed |-> ""] :
             s \in ResultShapes \ {"text is JSON"} }
    \cup { [kind |-> "result", error |-> "", shape |-> "text is JSON", parsed |-> p] :
             p \in ParsedResults }

\* Lines 1485-1505, one pass of the loop body on a response: the result is
\* returned, or the loop continues, `last` being last_exception.
EmptyCandidates(response, last) == [returns |-> FALSE, value |-> "", last |-> last]

TryOne(response, last) ==
    IF response.kind = "exception"
    THEN [returns |-> FALSE, value |-> "", last |-> response.error]
    ELSE IF response.shape \in {"no candidates key", "empty candidates"}
    THEN EmptyCandidates(response, last)
    ELSE IF response.shape \in {"no content", "no parts"}
    THEN [returns |-> FALSE, value |-> "", last |-> "KeyError"]
    ELSE IF response.shape = "text is not JSON"
    THEN [returns |-> FALSE, value |-> "", last |-> "JSONDecodeError"]
    ELSE [returns |-> TRUE, value |-> response.parsed, last |-> last]

MoatInit ==
    /\ m_api_key \in BOOLEAN
    /\ m_contacted = <<>>
    /\ m_last_exception = "None"
    /\ m_outcome = [kind |-> "none", value |-> ""]
    /\ m_pc = "start"

\* Lines 1439-1441: without the key, HTTP 500 at once.
CheckApiKey ==
    /\ m_pc = "start"
    /\ IF m_api_key
       THEN /\ m_pc' = "loop"
            /\ UNCHANGED m_outcome
       ELSE /\ m_pc' = "done"
            /\ m_outcome' = [kind |-> "HTTP 500", value |-> "GEMINI_API_KEY not found"]
    /\ UNCHANGED <<m_api_key, m_contacted, m_last_exception>>

\* Lines 1483-1508: one pass of the loop, on the next model of the list.
TryModel ==
    /\ m_pc = "loop"
    /\ Len(m_contacted) < Len(models_to_try)
    /\ \E response \in Responses :
          LET model == models_to_try[Len(m_contacted) + 1]
              pass == TryOne(response, m_last_exception)
          IN  /\ m_contacted' = Append(m_contacted, [model |-> model, response |-> response])
              /\ m_last_exception' = pass.last
              /\ IF pass.returns
                 THEN /\ m_outcome' = [kind |-> "return", value |-> pass.value]
                      /\ m_pc' = "done"
                 ELSE UNCHANGED <<m_outcome, m_pc>>
    /\ UNCHANGED m_api_key

\* Line 1511: the list is exhausted.
RaiseAllFailed ==
    /\ m_pc = "loop"
    /\ Len(m_contacted) = Len(models_to_try)
    /\ m_outcome' = [kind |-> "HTTP 500", value |-> m_last_exception]
    /\ m_pc' = "done"
    /\ UNCHANGED <<m_api_key, m_contacted, m_last_exception>>

MoatIdle ==
    /\ m_api_key = FALSE
    /\ m_contacted = <<>>
    /\ m_last_exception = "None"
    /\ m_outcome = [kind |-> "none", value |-> ""]
    /\ m_pc = "idle"

----------------------------------------------------------------------------
(* get_stock_data: the path of an exception, main.py 461-1327.  Each
   sub-computation, in program order, yields its value, falls back inside
   its own try block, or raises into the handler of line 1325. *)

\* A number is a Python number (the 0 the get_* helpers return for a
\* missing row, or an element of an object-dtype frame) or a numpy
\* float64 (an element of a float64 frame).
Py(x) == [type |-> "python", v |-> x]
Np(x) == [type |-> "numpy", v |-> x]
Element(dtype, x) == IF dtype = "object" THEN Py(x) ELSE Np(x)

\* x / y: ZeroDivisionError between Python numbers, nan or inf as soon as
\* one side is a numpy float64.
Finite(n, d) == [raises |-> FALSE, class |-> "finite", n |-> n, d |-> d]
NonFinite(class) == [raises |-> FALSE, class |-> class, n |-> 0, d |-> 1]
ZeroDivisionError == [raises |-> TRUE, class |-> "ZeroDivisionError", n |-> 0, d |-> 1]
TrueDiv(x, y) ==
    IF y.v # 0 THEN Finite(IF y.v < 0 THEN -x.v ELSE x.v, Abs(y.v))
    ELSE IF x.type = "python" /\ y.type = "python" THEN ZeroDivisionError
    ELSE IF x.v = 0 THEN NonFinite("nan")
    ELSE IF x.v > 0 THEN NonFinite("inf")
    ELSE NonFinite("-inf")

\* a > b on the results of two divisions that did not raise.
Greater(a, b) ==
    IF a.class = "nan" \/ b.class = "nan" THEN FALSE
    ELSE IF a.class = "inf" THEN b.class # "inf"
    ELSE IF b.class = "-inf" THEN a.class # "-inf"
    ELSE IF a.class = "-inf" \/ b.class = "inf" THEN FALSE
    ELSE a.n * b.d > b.n * a.d

\* Lines 597-602 on the TTM series of lines 511-537: the value of the row
\* (<<>> when the series has no such row), or 0 when the row is missing or
\* the fetch fell back to empty series.
get_ttm_val(raised, dtype, row) ==
    IF "ttm" \in raised \/ row = <<>> THEN Py(0) ELSE Element(dtype, row[1])

\* Line 609, with the fallback (info.get("returnOnEquity") or 0) taken as 0.
RoeTtm(ttm_net_income, ttm_equity) ==
    IF ttm_equity.v # 0 THEN TrueDiv(ttm_net_income, ttm_equity) ELSE Finite(0, 1)

\* Lines 1042-1054: [raises, pass].
RevArCheck(dtype, rev_series, ar_series) ==
    LET rev(i) == Element(dtype, rev_series[i])
        ar(i) == Element(dtype, ar_series[i])
        nr == Len(rev_series)
        na == Len(ar_series)
    IN  IF na = 0 \/ nr = 0 THEN [raises |-> FALSE, pass |-> FALSE]
        ELSE IF rev_series[1] > ar_series[1]
        THEN [raises |-> FALSE, pass |-> TRUE]
        ELSE IF na >= 2 /\ nr >= 2
        THEN LET rev_growth == TrueDiv(Element(dtype, rev_series[1] - rev_series[nr]),
                                       Element(dtype, Abs(rev_series[nr])))
                 ar_growth == TrueDiv(Element(dtype, ar_series[1]
                                                      - ar_series[na]),
                                      Element(dtype, Abs(ar_series[na])))
             IN  IF rev_growth.raises \/ ar_growth.raises
                 THEN [raises |-> TRUE, pass |-> FALSE]
                 ELSE [raises |-> FALSE, pass |-> Greater(rev_growth, ar_growth)]
        ELSE [raises |-> FALSE, pass |-> FALSE]

\* The try blocks of get_stock_data and of the functions it calls.
GuardedBlocks == {"ttm", "history", "ccc", "valuation", "support"}

\* Lines 944-1000, 1032-1035, 1041-1055, 1057-1093: the criteria this
\* path appends.
PipelineCriteria(raised, roe, rev_ar) ==
    <<[name |-> "Historical Trend (20Y)",
       value |-> IF "history" \in raised THEN "Error" ELSE "N/A"],
      [name |-> "ROE > 12-15%",
       value |-> IF roe.class = "finite" /\ 100 * roe.n >= 12 * roe.d THEN "Pass" ELSE "Fail"],
      [name |-> "Revenue > AR or Growing Faster",
       value |-> IF rev_ar.pass THEN "Pass" ELSE "Fail"]>>
    \o (IF "ccc" \in raised THEN <<>>
        ELSE <<[name |-> "CCC Stable/Reducing", value |-> "Pass"]>>)

\* Lines 1262-1323, with the fallbacks of lines 176-178, 457-459 and 1255.
StockResponse(raised, criteria) ==
    [kind |-> "return",
     detail |-> "",
     score |-> criteria,
     valuation |-> IF "valuation" \in raised THEN "Error" ELSE "Valued",
     support_resistance |-> IF "support" \in raised THEN "no levels" ELSE "levels"]

\* Lines 1325-1327.
Http500(detail) ==
    [kind |-> "HTTP 500", detail |-> detail, score |-> <<>>, valuation |-> "",
     support_resistance |-> ""]

StockData(raised, dtype, ttm, rev_series, ar_series) ==
    LET roe == RoeTtm(get_ttm_val(raised, dtype, ttm.net_income),
                      get_ttm_val(raised, dtype, ttm.equity))
        rev_ar == RevArCheck(dtype, rev_series, ar_series)
    IN  IF roe.raises \/ rev_ar.raises THEN Http500("division by zero")
        ELSE StockResponse(raised, PipelineCriteria(raised, roe, rev_ar))

MaxYears == 2
YearlyValues == {0, 100, 300}
YearlySeries == UNION { [1..n -> YearlyValues] : n \in 0..MaxYears }
TtmRows == [net_income : {<<>>, <<20>>}, equity : {<<>>, <<0>>, <<100>>}]

PipelineInit ==
    /\ p_raised \in SUBSET GuardedBlocks
    /\ p_dtype \in {"float64", "object"}
    /\ p_ttm \in TtmRows
    /\ p_revenue \in YearlySeries
    /\ p_receivables \in YearlySeries
    /\ p_outcome = [kind |-> "none", detail |-> "", score |-> <<>>, valuation |-> "",
                    support_resistance |-> ""]
    /\ p_pc = "start"

GetStockData ==
    /\ p_pc = "start"
    /\ p_outcome' = StockData(p_raised, p_dtype, p_ttm, p_revenue, p_receivables)
    /\ p_pc' = "done"
    /\ UNCHANGED <<p_raised, p_dtype, p_ttm, p_revenue, p_receivables>>

PipelineIdle ==
    /\ p_raised = {}
    /\ p_dtype = "float64"
    /\ p_ttm = [net_income |-> <<>>, equity |-> <<>>]
    /\ p_revenue = <<>>
    /\ p_receivables = <<>>
    /\ p_outcome = [kind |-> "none", detail |-> "", score |-> <<>>, valuation |-> "",
                    support_resistance |-> ""]
    /\ p_pc = "idle"

----------------------------------------------------------------------------
(* Specifications: one per component, the other components idle *)

TrendSpecInit == TrendInit /\ SupportIdle /\ ValuationIdle /\ DiscountIdle /\ ScoreIdle /\ BounceIdle /\ HistoryIdle /\ CleanIdle /\ GrowthIdle /\ MoatIdle /\ PipelineIdle
TrendNext ==
    CheckTrend /\ UNCHANGED <<supportVars, valuationVars, discountVars, scoreVars, bounceVars, historyVars, cleanVars, growthVars, moatVars, pipelineVars>>
SpecTrend == TrendSpecInit /\ [][TrendNext]_vars

SupportSpecInit == SupportInit /\ TrendIdle /\ ValuationIdle /\ DiscountIdle /\ ScoreIdle /\ BounceIdle /\ HistoryIdle /\ CleanIdle /\ GrowthIdle /\ MoatIdle /\ PipelineIdle
SupportNext ==
    GetValidatedSupportLevels
    /\ UNCHANGED <<trendVars, valuationVars, discountVars, scoreVars, bounceVars, historyVars, cleanVars, growthVars, moatVars, pipelineVars>>
SpecSupport == SupportSpecInit /\ [][SupportNext]_vars

ValuationSpecInit == ValuationInit /\ TrendIdle /\ SupportIdle /\ DiscountIdle /\ ScoreIdle /\ BounceIdle /\ HistoryIdle /\ CleanIdle /\ GrowthIdle /\ MoatIdle /\ PipelineIdle
ValuationNext ==
    CalculateIntrinsicValue
    /\ UNCHANGED <<trendVars, supportVars, discountVars, scoreVars, bounceVars, historyVars, cleanVars, growthVars, moatVars, pipelineVars>>
SpecValuation == ValuationSpecInit /\ [][ValuationNext]_vars

DiscountSpecInit == DiscountInit /\ TrendIdle /\ SupportIdle /\ ValuationIdle /\ ScoreIdle /\ BounceIdle /\ HistoryIdle /\ CleanIdle /\ GrowthIdle /\ MoatIdle /\ PipelineIdle
DiscountNext ==
    (\E b \in BetaValues, c \in Countries : GetDiscountRate(b, c))
    /\ UNCHANGED <<trendVars, supportVars, valuationVars, scoreVars, bounceVars, historyVars, cleanVars, growthVars, moatVars, pipelineVars>>
SpecDiscount == DiscountSpecInit /\ [][DiscountNext]_vars

ScoreSpecInit == ScoreInit /\ TrendIdle /\ SupportIdle /\ ValuationIdle /\ DiscountIdle /\ BounceIdle /\ HistoryIdle /\ CleanIdle /\ GrowthIdle /\ MoatIdle /\ PipelineIdle
ScoreNext ==
    ComputeScore /\ UNCHANGED <<trendVars, supportVars, valuationVars, discountVars, bounceVars, historyVars, cleanVars, growthVars, moatVars, pipelineVars>>
SpecScore == ScoreSpecInit /\ [][ScoreNext]_vars

BounceSpecInit == BounceInit /\ TrendIdle /\ SupportIdle /\ ValuationIdle /\ DiscountIdle /\ ScoreIdle /\ HistoryIdle /\ CleanIdle /\ GrowthIdle /\ MoatIdle /\ PipelineIdle
BounceNext ==
    BounceTest
    /\ UNCHANGED <<trendVars, supportVars, valuationVars, discountVars, scoreVars, historyVars, cleanVars, growthVars, moatVars, pipelineVars>>
SpecBounce == BounceSpecInit /\ [][BounceNext]_vars

HistorySpecInit == HistoryInit /\ TrendIdle /\ SupportIdle /\ ValuationIdle /\ DiscountIdle /\ ScoreIdle /\ BounceIdle /\ CleanIdle /\ GrowthIdle /\ MoatIdle /\ PipelineIdle
HistoryNext ==
    HistoricalTrend
    /\ UNCHANGED <<trendVars, supportVars, valuationVars, discountVars, scoreVars, bounceVars, cleanVars, growthVars, moatVars, pipelineVars>>
SpecHistory == HistorySpecInit /\ [][HistoryNext]_vars

CleanSpecInit == CleanInit /\ TrendIdle /\ SupportIdle /\ ValuationIdle /\ DiscountIdle /\ ScoreIdle /\ BounceIdle /\ HistoryIdle /\ GrowthIdle /\ MoatIdle /\ PipelineIdle
CleanNext ==
    ReadStock
    /\ UNCHANGED <<trendVars, supportVars, valuationVars, discountVars, scoreVars, bounceVars, historyVars, growthVars, moatVars, pipelineVars>>
SpecClean == CleanSpecInit /\ [][CleanNext]_vars

GrowthSpecInit == GrowthInit /\ TrendIdle /\ SupportIdle /\ ValuationIdle /\ DiscountIdle /\ ScoreIdle /\ BounceIdle /\ HistoryIdle /\ CleanIdle /\ MoatIdle /\ PipelineIdle
GrowthNext ==
    GetGrowthEstimates
    /\ UNCHANGED <<trendVars, supportVars, valuationVars, discountVars, scoreVars, bounceVars, historyVars, cleanVars, moatVars, pipelineVars>>
SpecGrowth == GrowthSpecInit /\ [][GrowthNext]_vars

MoatSpecInit == MoatInit /\ TrendIdle /\ SupportIdle /\ ValuationIdle /\ DiscountIdle /\ ScoreIdle /\ BounceIdle /\ HistoryIdle /\ CleanIdle /\ GrowthIdle /\ PipelineIdle
MoatNext ==
    (CheckApiKey \/ TryModel \/ RaiseAllFailed)
    /\ UNCHANGED <<trendVars, supportVars, valuationVars, discountVars, scoreVars, bounceVars, historyVars, cleanVars, growthVars, pipelineVars>>
SpecMoat == MoatSpecInit /\ [][MoatNext]_vars

PipelineSpecInit == PipelineInit /\ TrendIdle /\ SupportIdle /\ ValuationIdle /\ DiscountIdle /\ ScoreIdle /\ BounceIdle /\ HistoryIdle /\ CleanIdle /\ GrowthIdle /\ MoatIdle
PipelineNext ==
    GetStockData
    /\ UNCHANGED <<trendVars, supportVars, valuationVars, discountVars, scoreVars, bounceVars, historyVars, cleanVars, growthVars, moatVars>>
SpecPipeline == PipelineSpecInit /\ [][PipelineNext]_vars

----------------------------------------------------------------------------
(* Claims about check_trend *)

\* C1: whenever the series, after dropping missing values, has fewer than
\* 2 points, check_trend returns false, for every trend kind.
C1_ShortSeriesFails ==
    (t_pc = "done" /\ Len(DropNa(t_series)) < 2) => t_result = FALSE

C1_Witness ==
    /\ t_pc = "done"
    /\ Len(t_series) = 3
    /\ Len(DropNa(t_series)) = 1
    /\ t_kind = "stable_increasing"
    /\ t_result = FALSE

IsNonDecreasing(y) == \A i \in 2..Len(y) : y[i] >= y[i - 1]
IsStrictlyDecreasing(y) == \A i \in 2..Len(y) : y[i] < y[i - 1]

\* C2: for kind "increasing", every series of at least 2 points that is
\* monotonically increasing in chronological order passes, and every series
\* of at least 2 points that is monotonically decreasing fails.
C2_MonotoneIncreasing ==
    (t_pc = "done" /\ t_kind = "increasing" /\ Len(DropNa(t_series)) >= 2) =>
        LET y == Chronological(t_series)
        IN  /\ IsNonDecreasing(y) => t_result = TRUE
            /\ IsStrictlyDecreasing(y) => t_result = FALSE

----------------------------------------------------------------------------
(* Claims about get_validated_support_levels *)

\* The prices p and q differ by more than 1.5% of the higher one.
FarApart(p, q) ==
    LET hi == IF PriceLess(p, q) THEN q ELSE p
        lo == IF PriceLess(p, q) THEN p ELSE q
    IN  1000 * (hi.n * lo.d - lo.n * hi.d) > 15 * lo.d * hi.n

\* C3: the merge returns at most 5 levels, and no two returned levels have
\* prices within 1.5% of each other (difference over the higher price).
C3_MergedLevelsApart ==
    s_pc = "done" =>
        /\ Len(s_levels) <= 5
        /\ \A i, j \in 1..Len(s_levels) :
              i < j => FarApart(s_levels[i].price, s_levels[j].price)

\* Six merged levels were cut to five, and some candidates were merged.
C3_Witness ==
    /\ s_pc = "done"
    /\ Len(UniqueLevels(support_candidates)) = 6
    /\ Len(support_candidates) > 6
    /\ Len(s_levels) = 5

\* The sorted lows, and for each position the run (cluster) it was put in.
SortedLows == SortAsc(swing_lows)
RunStart(k) == 1 + SumSeq([j \in 1..(k - 1) |-> Len(s_groups[j])])
RunOf(i) ==
    CHOOSE k \in 1..Len(s_groups) : RunStart(k) <= i /\ i < RunStart(k) + Len(s_groups[k])

PositiveLows == \A i \in 1..Len(swing_lows) : swing_lows[i] > 0

\* b is within 2% of a, for a <= b.
Within2Pct(a, b) == 100 * (b - a) <= 2 * a

\* C4 as stated, for positive lows: any two lows within 2% of each other share a cluster, and
\* two adjacent lows more than 2% apart never do.
C4_Original ==
    (s_pc = "done" /\ PositiveLows) =>
        \A i, j \in 1..Len(SortedLows) :
            i < j =>
               /\ Within2Pct(SortedLows[i], SortedLows[j]) => RunOf(i) = RunOf(j)
               /\ (j = i + 1 /\ ~Within2Pct(SortedLows[i], SortedLows[j]))
                     => RunOf(i) # RunOf(j)

\* C4, amended, for positive lows: a low joins the cluster of its predecessor in sorted order
\* iff it is within 2% of the average of the lows already in that cluster;
\* hence two adjacent lows within 2% of each other share a cluster when the
\* lower one is alone in its cluster so far, and two adjacent lows more
\* than 2% apart never share one.
C4_ClusterByRunningAverage ==
    (s_pc = "done" /\ PositiveLows) =>
        \A i \in 2..Len(SortedLows) :
            LET k == RunOf(i - 1)
                members == SubSeq(SortedLows, RunStart(k), i - 1)
                sum == SumSeq(members)
                near == 100 * Abs(SortedLows[i] * Len(members) - sum) <= 2 * sum
            IN  /\ (RunOf(i) = k) <=> near
                /\ (RunStart(k) = i - 1 /\ Within2Pct(SortedLows[i - 1], SortedLows[i]))
                      => RunOf(i) = k
                /\ ~Within2Pct(SortedLows[i - 1], SortedLows[i]) => RunOf(i) # k

\* Two adjacent lows within 2% of each other, split because the cluster's
\* average lies more than 2% below the higher one.
C4_Witness ==
    /\ s_pc = "done"
    /\ PositiveLows
    /\ \E i \in 2..Len(SortedLows) :
          /\ Within2Pct(SortedLows[i - 1], SortedLows[i])
          /\ RunOf(i) # RunOf(i - 1)
          /\ Len(s_groups[RunOf(i - 1)]) >= 2

\* The candidates the clustering contributed.
PriceActionCandidates ==
    { i \in 1..Len(support_candidates) : support_candidates[i].source = "Price Action" }

\* The candidate a run of lows gives when it is emitted.
EmittedAs(run, c) ==
    /\ c.price = [n |-> SumSeq(run), d |-> Len(run)]
    /\ c.reason = <<"Horizontal Cluster", Len(run)>>
    /\ 2 * c.score2 = 2 * (3 * Len(run))

\* C17: a cluster of swing lows is emitted as a candidate iff it has at
\* least 2 members and its average is below the current price, with its
\* member count as touch count and a score of 1.5 per member; the lows
\* [10.0, 10.1, 10.15, 15.0] under a higher current price give exactly one
\* candidate, of average 30.25/3 and count 3.
C17_ClusterEmitted ==
    s_pc = "done" =>
        /\ \A k \in 1..Len(s_groups) :
              (Len(s_groups[k]) >= 2 /\ SumSeq(s_groups[k]) < current_price * Len(s_groups[k]))
              <=> \E i \in PriceActionCandidates : EmittedAs(s_groups[k], support_candidates[i])
        /\ \A i \in PriceActionCandidates :
              \E k \in 1..Len(s_groups) : EmittedAs(s_groups[k], support_candidates[i])
        /\ Cardinality(PriceActionCandidates)
              = Cardinality({ k \in 1..Len(s_groups) :
                                Len(s_groups[k]) >= 2
                                /\ SumSeq(s_groups[k]) < current_price * Len(s_groups[k]) })
        /\ (SortAsc(swing_lows) = <<1000, 1010, 1015, 1500>> /\ 3 * current_price > 3025)
              => /\ s_groups = << <<1000, 1010, 1015>>, <<1500>> >>
                 /\ Cardinality(PriceActionCandidates) = 1
                 /\ \A i \in PriceActionCandidates :
                       EmittedAs(<<1000, 1010, 1015>>, support_candidates[i])

C17_Witness ==
    /\ s_pc = "done"
    /\ SortAsc(swing_lows) = <<1000, 1010, 1015, 1500>>
    /\ current_price = 2000
    /\ Cardinality(PriceActionCandidates) = 1

\* A division by a zero price happened: a low was compared with a cluster
\* whose average is 0.
DividedByZero ==
    s_pc = "done" /\ Len(swing_lows) >= 2 /\ \E i \in 1..Len(swing_lows) : swing_lows[i] = 0

\* C20, as stated: any failure, a division by a zero price included, ends
\* in an empty list of levels.
C20_Original ==
    (s_pc = "failed" \/ DividedByZero) => s_levels = <<>>

\* C20, amended: an exception ends in an empty list; a division by a zero
\* price raises none, the comparison it feeds is false, so a zero low
\* stays alone in its run and the rest is computed as usual.
C20_FailureGivesEmptyList ==
    /\ s_pc = "failed" => s_levels = <<>>
    /\ DividedByZero =>
          /\ \A k \in 1..Len(s_groups) :
                (\E j \in 1..Len(s_groups[k]) : s_groups[k][j] = 0) => Len(s_groups[k]) = 1
          /\ s_levels = TopLevels(UniqueLevels(support_candidates))

C20_Witness ==
    /\ DividedByZero
    /\ s_levels # <<>>
    /\ \E i \in 1..Len(swing_lows), j \in 1..Len(swing_lows) :
          i # j /\ swing_lows[i] = 0 /\ swing_lows[j] = 0

----------------------------------------------------------------------------
(* Claims about get_discount_rate *)

\* The beta a call was made with, a missing one counting as 1.0.
BetaNumber(b) == IF b.none THEN 100 ELSE b.v

\* C5: for a fixed country the discount rate is non-decreasing in beta,
\* zero, negative and missing betas included.
C5_MonotoneInBeta ==
    (/\ Len(dr_calls) = 2
     /\ dr_calls[1].country = dr_calls[2].country
     /\ BetaNumber(dr_calls[1].beta) <= BetaNumber(dr_calls[2].beta))
        => dr_calls[1].rate <= dr_calls[2].rate

\* The calls made for a country that does not contain 'China'.
NonChinaCalls == { i \in 1..Len(dr_calls) : ~Contains(dr_calls[i].country, StrChina) }

\* C13: for a non-China country the discount rate is 6.0% when beta is 1.0
\* and when beta is unavailable.
C13_DefaultRate ==
    \A i \in NonChinaCalls :
        (dr_calls[i].beta.none \/ dr_calls[i].beta.v = 100) => dr_calls[i].rate = 60

C13_Witness ==
    \E i, j \in NonChinaCalls :
        /\ dr_calls[i].beta.none /\ dr_calls[i].rate = 60
        /\ ~dr_calls[j].beta.none /\ dr_calls[j].beta.v = 100 /\ dr_calls[j].rate = 60

\* The calls made with a beta of 1.6 or more.
OutOfRangeCalls ==
    { i \in 1..Len(dr_calls) : ~dr_calls[i].beta.none /\ dr_calls[i].beta.v >= 160 }

\* C14, as stated: a beta of 1.6 or more gets the rate of the ~1.5 bucket,
\* 13.7% for China and 7.8% otherwise.
C14_Original ==
    \A i \in OutOfRangeCalls :
        dr_calls[i].rate = IF Contains(dr_calls[i].country, StrChina) THEN 137 ELSE 78

\* C14, amended: a beta of 1.6 or more gets 7.8% outside China, the rate of
\* that table's top bucket (beta >= 1.55), and 14.5% for China, a bucket of
\* its own above the 13.7% that betas in [1.45, 1.6) get.
C14_TopBucket ==
    /\ \A i \in OutOfRangeCalls :
          dr_calls[i].rate = IF Contains(dr_calls[i].country, StrChina) THEN 145 ELSE 78
    /\ \A i \in 1..Len(dr_calls) :
          (/\ ~dr_calls[i].beta.none
           /\ dr_calls[i].beta.v >= 145 /\ dr_calls[i].beta.v < 160
           /\ Contains(dr_calls[i].country, StrChina)) => dr_calls[i].rate = 137
    /\ \A i \in 1..Len(dr_calls) :
          (/\ ~dr_calls[i].beta.none
           /\ dr_calls[i].beta.v >= 155 /\ dr_calls[i].beta.v < 160
           /\ ~Contains(dr_calls[i].country, StrChina)) => dr_calls[i].rate = 78

C14_Witness ==
    \E i, j \in OutOfRangeCalls :
        /\ Contains(dr_calls[i].country, StrChina) /\ dr_calls[i].rate = 145
        /\ ~Contains(dr_calls[j].country, StrChina) /\ dr_calls[j].rate = 78

----------------------------------------------------------------------------
(* Claims about the composite score *)

RECURSIVE SumOver(_, _)
SumOver(S, f) ==
    IF S = {} THEN 0
    ELSE LET x == CHOOSE y \in S : TRUE IN f[x] + SumOver(S \ {x}, f)

SelectedTable ==
    IF is_reit(sc_company.industry, sc_company.sector) THEN weights_reit
    ELSE IF has_physical_goods(sc_company.recent_inventory) THEN weights_ccc
    ELSE weights_standard

CriteriaNames == { score_criteria[i].name : i \in 1..Len(score_criteria) }
PassedNames ==
    { score_criteria[i].name : i \in { k \in 1..Len(score_criteria) :
                                         score_criteria[k].status = "Pass" } }
TableWeight == [n \in CriteriaNames |->
                  IF n \in DOMAIN SelectedTable THEN SelectedTable[n] ELSE 0]

\* C6: for every archetype and every combination of outcomes, total <= max,
\* and max is the sum over the criteria appended of their weight in the
\* selected table, a criterion absent from the table counting 0 (the total
\* being the same sum over the passed criteria).
C6_ScoreWithinMax ==
    sc_pc = "done" =>
        /\ total_score <= max_score
        /\ Cardinality(CriteriaNames) = Len(score_criteria)
        /\ max_score = SumOver(CriteriaNames, TableWeight)
        /\ total_score = SumOver(PassedNames, TableWeight)

\* A REIT that carries inventory: CCC is appended and weighs nothing.
C6_Witness ==
    /\ sc_pc = "done"
    /\ is_reit(sc_company.industry, sc_company.sector)
    /\ "CCC Stable/Reducing" \in CriteriaNames
    /\ "Gearing Ratio < 45%" \in CriteriaNames
    /\ max_score = 103
    /\ total_score < max_score

\* The points of one moat factor, doubled: 1 above `high`, 0.5 above `low`.
FactorPoints2(x, high, low) ==
    IF ~x.nan /\ x.v > high THEN 2 ELSE IF ~x.nan /\ x.v > low THEN 1 ELSE 0

MoatCriterionPasses ==
    \E i \in 1..Len(score_criteria) :
        score_criteria[i].name = "Economic Moat" /\ score_criteria[i].status = "Pass"

\* C18: the moat score is the sum of five factors worth 0, 0.5 or 1 each
\* (gross margin above 40 / 20 percent, ROIC above 15% / 10%, revenue above
\* 100e9 / 10e9, net margin above 20 / 10 percent, revenue growth above
\* 15% / 5%); the type is Wide iff the score is > 3, Narrow iff it is in
\* [2, 3], None otherwise; the criterion passes iff the type is Wide or
\* Narrow; the scenario scores 5 and is Wide.
C18_MoatScore ==
    sc_pc = "done" =>
        /\ moat_score2 =
              FactorPoints2(FirstOrZero(moat_in.gross_margin_series), 40, 20)
              + FactorPoints2(moat_in.roic, 150, 100)
              + FactorPoints2(FirstOrZero(moat_in.revenue_series), 100, 10)
              + FactorPoints2(FirstOrZero(moat_in.net_margin_series), 20, 10)
              + FactorPoints2(moat_in.revenue_growth, 150, 50)
        /\ moat_score2 \in 0..10
        /\ (moat_type = "Wide") <=> (moat_score2 > 6)
        /\ (moat_type = "Narrow") <=> (moat_score2 >= 4 /\ moat_score2 <= 6)
        /\ (moat_type = "None") <=> (moat_score2 < 4)
        /\ MoatCriterionPasses <=> (moat_type \in {"Wide", "Narrow"})
        /\ moat_in = WideMoat => (moat_score2 = 10 /\ moat_type = "Wide")

\* A score of exactly 3: Narrow, and the criterion passes.
C18_Witness ==
    /\ sc_pc = "done"
    /\ moat_score2 = 6
    /\ moat_type = "Narrow"
    /\ MoatCriterionPasses

\* C19: a company whose industry contains 'REIT' or whose sector contains
\* 'Real Estate' uses the REIT table even with inventory; otherwise one
\* with positive inventory uses the CCC table; all others the standard
\* table.  The gearing criterion is evaluated iff the company is a REIT.
C19_ArchetypeTable ==
    sc_pc = "done" =>
        LET reit == \/ Contains(sc_company.industry, StrREIT)
                    \/ Contains(sc_company.sector, StrRealEstate)
            inventory == sc_company.recent_inventory
        IN  /\ current_weights =
                  IF reit THEN weights_reit
                  ELSE IF ~inventory.nan /\ inventory.v > 0 THEN weights_ccc
                  ELSE weights_standard
            /\ ("Gearing Ratio < 45%" \in CriteriaNames) <=> reit

\* A REIT by its industry only, carrying inventory.
C19_Witness ==
    /\ sc_pc = "done"
    /\ sc_company.sector = StrTechnology
    /\ sc_company.industry = StrReitRetail
    /\ sc_company.recent_inventory = Num(5)
    /\ current_weights = weights_reit
    /\ "Gearing Ratio < 45%" \in CriteriaNames

----------------------------------------------------------------------------
(* Claims about the valuation method *)

Selected == v_pc = "done" /\ method # "N/A"

FinancialCompany ==
    \/ Contains(info.sector, StrFinancial)
    \/ Contains(info.industry, StrBank)
    \/ Contains(info.industry, StrInsurance)

LossMaking ==
    \/ IsNegative(CurrentOf(net_income_series))
    \/ IsNegative(CurrentOf(op_cash_flow_series))

\* C8: a Financial sector or a Bank or Insurance industry selects the
\* Price-to-Book method whatever the growth, signs and consistency.
C8_FinancialUsesPB ==
    (Selected /\ FinancialCompany) => method = MethodPB

\* A bank with fast-growing revenue and a loss, valued by PB, not PSG.
C8_Witness ==
    /\ Selected
    /\ info.sector = StrTechnology /\ info.industry = StrBanksRegional
    /\ RevCagrAbove15(revenue_series)
    /\ IsNegative(CurrentOf(net_income_series))
    /\ method = MethodPB

\* The compound annual growth rate between the oldest and the newest of n
\* yearly points, n - 1 years apart, is above 15%.
CagrAbove15(series) ==
    LET n == Len(series)
    IN  /\ n >= 2
        /\ ~series[1].nan /\ ~series[n].nan
        /\ series[n].v > 0
        /\ series[1].v * Pow(100, n - 1) > series[n].v * Pow(115, n - 1)

\* C9: a non-financial company whose revenue CAGR is above 15% and whose
\* net income or operating cash flow is negative is valued by PSG, for
\* every length of revenue series that has a CAGR.
C9_FastGrowingLossUsesPSG ==
    (Selected /\ ~FinancialCompany /\ CagrAbove15(revenue_series) /\ LossMaking)
        => method = MethodPSG

FailedSteps(series) ==
    { i \in 1..(Len(series) - 1) :
        ~(~series[i].nan /\ ~series[i + 1].nan /\ 10 * series[i].v >= 9 * series[i + 1].v) }
Consistent(series) == Len(series) >= 3 /\ Cardinality(FailedSteps(series)) <= 1

OcfAbove150PctOfNi ==
    LET o == CurrentOf(op_cash_flow_series)
        n == CurrentOf(net_income_series)
    IN  ~o.nan /\ ~n.nan /\ 2 * o.v > 3 * n.v

\* C10: the method is one of PB, PSG, DFCF, DOCF, DNI, and when neither the
\* PB rule nor the PSG rule applies it follows the consistency table.
C10_ConsistencyTable ==
    Selected =>
        /\ method \in {MethodPB, MethodPSG, MethodDFCF, MethodDOCF, MethodDNI}
        /\ (~FinancialCompany /\ ~(RevCagrAbove15(revenue_series) /\ LossMaking)) =>
              LET r == Consistent(revenue_series)
                  n == Consistent(net_income_series)
                  o == Consistent(op_cash_flow_series)
              IN  method =
                    IF r /\ n /\ o
                    THEN (IF OcfAbove150PctOfNi THEN MethodDFCF ELSE MethodDOCF)
                    ELSE IF r /\ n THEN MethodDNI
                    ELSE IF IsPositive(CurrentOf(op_cash_flow_series)) THEN MethodDOCF
                    ELSE MethodDNI

\* All three series consistent, the revenue with its one allowed dip, and
\* the operating cash flow above 1.5 times the net income.
C10_Witness ==
    /\ Selected
    /\ FailedSteps(revenue_series) # {}
    /\ Consistent(revenue_series)
    /\ Consistent(net_income_series)
    /\ Consistent(op_cash_flow_series)
    /\ method = MethodDFCF

----------------------------------------------------------------------------
(* Claims about the valuation result *)

Returned == v_pc = "done"

\* A price or a share count that is missing, zero or negative.
NonPositive(key) == key \notin DOMAIN info \/ info[key] <= 0

IsErrorResult ==
    /\ result.status = "Error"
    /\ RatioIsZero(result.intrinsicValue)
    /\ RatioIsZero(result.differencePercent)
    /\ result.assumptions = {}

\* C11: whenever the current price or the shares outstanding is zero,
\* missing or negative, the Error result is returned: status 'Error',
\* intrinsic value 0, difference 0, no assumptions.
C11_NonPositiveGivesError ==
    (Returned /\ (NonPositive("currentPrice") \/ NonPositive("sharesOutstanding")))
        => IsErrorResult

\* The fraction current price / intrinsic value - 1 exists and is `x`.
IsPriceOverValueMinusOne(x) ==
    LET value == result.intrinsicValue
        price == result.currentPrice
    IN  IF value.nan THEN x.nan
        ELSE /\ value.n # 0
             /\ x = Ratio(price * value.d - value.n, value.n)

Above15Pct(x) == ~x.nan /\ 100 * x.n > 15 * x.d
BelowMinus15Pct(x) == ~x.nan /\ 100 * x.n < -15 * x.d

StatusFollows(x) ==
    /\ (result.status = "Overvalued") <=> Above15Pct(x)
    /\ (result.status = "Undervalued") <=> BelowMinus15Pct(x)
    /\ (result.status = "Fairly Valued") <=> (~Above15Pct(x) /\ ~BelowMinus15Pct(x))

\* C12, as stated: for a non-Error valuation the returned difference is
\* the fraction current price / intrinsic value - 1, and the status is
\* Overvalued iff it is > 0.15, Undervalued iff it is < -0.15, Fairly
\* Valued otherwise.
C12_Original ==
    (Returned /\ result.status # "Error") =>
        /\ IsPriceOverValueMinusOne(result.differencePercent)
        /\ StatusFollows(result.differencePercent)

\* C12, amended: so it is when the intrinsic value is not 0; when it is 0
\* the difference returned is 0 and the status is Fairly Valued.
C12_StatusThresholds ==
    (Returned /\ result.status # "Error") =>
        /\ StatusFollows(result.differencePercent)
        /\ IF RatioIsZero(result.intrinsicValue)
           THEN RatioIsZero(result.differencePercent) /\ result.status = "Fairly Valued"
           ELSE IsPriceOverValueMinusOne(result.differencePercent)

\* A value of 0 under a positive price.
C12_Witness ==
    /\ Returned
    /\ result.status = "Fairly Valued"
    /\ RatioIsZero(result.intrinsicValue)
    /\ result.currentPrice > 0

\* The entries of the estimates whose period contains 'Next 5 Years'.
Next5YearsEntries ==
    { i \in 1..Len(growth_estimates) :
        "period" \in DOMAIN growth_estimates[i]
        /\ Contains(growth_estimates[i].period, StrNext5Years) }

\* The net-income history has a growth rate: more than 3 points, the
\* oldest one not zero.
HasHistoricalRate ==
    /\ Len(net_income_series) > 3
    /\ ~net_income_series[Len(net_income_series)].nan
    /\ net_income_series[Len(net_income_series)].v # 0

Valued == Returned /\ method # "N/A"

\* C15: the years 1-5 rate comes from the 'Next 5 Years' estimate when
\* there is one, and from the historical net-income growth in every other
\* case, estimates without such an entry included.
C15_GrowthSource ==
    Valued =>
        /\ (\E i \in Next5YearsEntries :
               /\ \A j \in Next5YearsEntries : i <= j
               /\ "stockTrend" \in DOMAIN growth_estimates[i]
               /\ ParseFloat(RemovePercent(growth_estimates[i].stockTrend)).ok)
             => growth_rates.growth_rate_1_5
                  = ClampGrowth(EstimateRate(growth_estimates, Num(50)))
        /\ (Next5YearsEntries = {} /\ HasHistoricalRate)
             => growth_rates.growth_rate_1_5
                  = ClampGrowth(HistoricalRate(net_income_series, Num(50)))

\* C16: the years 1-5 rate lies in [-10%, 30%], the years 6-10 rate is
\* min(years 1-5 rate, 15%) and never above it, the years 11-20 rate is
\* 6% for a country containing 'China' and 4% otherwise.
C16_GrowthSchedule ==
    Valued =>
        LET r1 == growth_rates.growth_rate_1_5
            r2 == growth_rates.growth_rate_6_10
            r3 == growth_rates.growth_rate_11_20
        IN  /\ ~r1.nan /\ r1.v >= -100 /\ r1.v <= 300
            /\ ~r2.nan /\ r2.v = (IF r1.v < 150 THEN r1.v ELSE 150) /\ r2.v <= r1.v
            /\ r3 = IF Contains(info.country, StrChina) THEN Num(60) ELSE Num(40)

----------------------------------------------------------------------------
(* Claims about the returned support levels *)

\* The price data is positive: every latest SMA and every swing low.
PositivePriceData ==
    /\ \A i \in 1..Len(sma_stats) : sma_stats[i].sma > 0
    /\ \A i \in 1..Len(swing_lows) : swing_lows[i] > 0

\* C27: every returned level has a price strictly below the current price,
\* the last daily close; with an empty daily history the current price is
\* 0 and, the price data being positive, no level is returned.
C27_LevelsBelowPrice ==
    s_pc = "done" =>
        /\ current_price = CurrentPrice(daily_closes)
        /\ \A i \in 1..Len(s_levels) : PriceLess(s_levels[i].price, Price(current_price))
        /\ daily_closes = <<>> => current_price = 0
        /\ (daily_closes = <<>> /\ PositivePriceData) => s_levels = <<>>

\* Levels from both sources under the last close of a two-bar history.
C27_Witness ==
    /\ s_pc = "done"
    /\ daily_closes = <<995, 2000>>
    /\ \E i \in 1..Len(s_levels) : s_levels[i].source = "Price Action"
    /\ \E i \in 1..Len(s_levels) : s_levels[i].source # "Price Action"

\* The members of a sequence of groups, in order.
RECURSIVE Flatten(_)
Flatten(groups) == IF groups = <<>> THEN <<>> ELSE groups[1] \o Flatten(Tail(groups))

\* `level` is the first member of `group` with the highest score.
FirstBestOf(group, level) ==
    \E j \in 1..Len(group) :
        /\ group[j] = level
        /\ \A i \in 1..Len(group) : group[i].score2 <= level.score2
        /\ \A i \in 1..(j - 1) : group[i].score2 < level.score2

\* C24: the merged groups split the candidates in price-descending order;
\* the k-th returned level is the first highest-scoring member of the k-th
\* group, whole (its price, reason and score); the levels are in strictly
\* descending order of price, whatever their scores.
C24_MergeKeepsBest ==
    s_pc = "done" =>
        /\ Flatten(merged_groups) = support_candidates
        /\ \A i \in 1..(Len(support_candidates) - 1) :
              ~PriceLess(support_candidates[i].price, support_candidates[i + 1].price)
        /\ Len(s_levels) = (IF Len(merged_groups) < 5 THEN Len(merged_groups) ELSE 5)
        /\ \A k \in 1..Len(s_levels) : FirstBestOf(merged_groups[k], s_levels[k])
        /\ \A k \in 1..(Len(s_levels) - 1) :
              PriceLess(s_levels[k + 1].price, s_levels[k].price)

\* A group of three with a tie for the best score, the level not its
\* first member, and a later level that outscores an earlier one.
C24_Witness ==
    /\ s_pc = "done"
    /\ \E k \in 1..Len(s_levels) :
          /\ Len(merged_groups[k]) >= 3
          /\ s_levels[k] # merged_groups[k][1]
          /\ \E i, j \in 1..Len(merged_groups[k]) :
                i # j /\ merged_groups[k][i].score2 = s_levels[k].score2
                      /\ merged_groups[k][j].score2 = s_levels[k].score2
    /\ \E k \in 1..(Len(s_levels) - 1) : s_levels[k + 1].score2 > s_levels[k].score2

----------------------------------------------------------------------------
(* Claims about the SMA bounce test *)

\* The rows of `df` with a defined SMA of the window that touched it
\* (low <= SMA * 1.01) and closed at or above it.
BounceRows(df, window) ==
    { i \in window..Len(df) :
        /\ 100 * df[i].low <= 101 * Sma(df, i, window)
        /\ df[i].close >= Sma(df, i, window) }

\* The candidates emitted for a timeframe and a window.
EmittedFor(t, window) ==
    { k \in 1..Len(b_candidates) :
        /\ b_candidates[k].reason[1] = Timeframes[t]
        /\ b_candidates[k].reason[2] = window }

\* C23: for each timeframe and each window in {50, 100, 150, 200}, a
\* candidate is emitted iff the timeframe has at least 200 bars, at least
\* 3 bars with a defined SMA bounced on it, and the latest SMA is strictly
\* below the current price; its price is the latest SMA, its score twice
\* the bounce count.  A timeframe of fewer than 200 bars emits nothing.
C23_BounceTest ==
    b_pc = "done" =>
        /\ SmaPeriods = <<50, 100, 150, 200>>
        /\ \A t \in 1..3 : \A p \in 1..4 :
              LET df == b_frames[t]
                  window == SmaPeriods[p]
              IN  /\ Cardinality(EmittedFor(t, window)) <= 1
                  /\ (EmittedFor(t, window) # {})
                        <=> /\ Len(df) >= 200
                            /\ Cardinality(BounceRows(df, window)) >= 3
                            /\ Sma(df, Len(df), window) < b_price
                  /\ \A k \in EmittedFor(t, window) :
                        /\ b_candidates[k].price = Price(Sma(df, Len(df), window))
                        /\ b_candidates[k].source = Timeframes[t]
                        /\ b_candidates[k].score2 = 2 * (2 * Cardinality(BounceRows(df, window)))
                        /\ b_candidates[k].reason[3] = Cardinality(BounceRows(df, window))
        /\ \A k \in 1..Len(b_candidates) :
              \E t \in 1..3 : \E p \in 1..4 : k \in EmittedFor(t, SmaPeriods[p])

\* A timeframe of 203 bars with a window of exactly 3 bounces emitted and
\* a window of 3 or more bounces held back by its SMA above the price.
C23_Witness ==
    /\ b_pc = "done"
    /\ \E t \in 1..3 :
          /\ Len(b_frames[t]) = 203
          /\ \E p \in 1..4 :
                /\ Cardinality(BounceRows(b_frames[t], SmaPeriods[p])) = 3
                /\ EmittedFor(t, SmaPeriods[p]) # {}
          /\ \E p \in 1..4 :
                /\ Cardinality(BounceRows(b_frames[t], SmaPeriods[p])) >= 3
                /\ EmittedFor(t, SmaPeriods[p]) = {}

\* A timeframe of 199 bars whose 50-bar SMA saw 3 bounces below the price.
C23_WitnessShort ==
    /\ b_pc = "done"
    /\ \E t \in 1..3 :
          /\ Len(b_frames[t]) = 199
          /\ Cardinality(BounceRows(b_frames[t], 50)) >= 3
          /\ Sma(b_frames[t], 199, 50) < b_price
          /\ b_candidates = <<>>

----------------------------------------------------------------------------
(* Claims about the sign of the valuation *)

\* The intrinsic value is a number above, or below, the current price.
ValueAbovePrice ==
    /\ ~result.intrinsicValue.nan
    /\ result.intrinsicValue.n > result.currentPrice * result.intrinsicValue.d
ValueBelowPrice ==
    /\ ~result.intrinsicValue.nan
    /\ result.intrinsicValue.n < result.currentPrice * result.intrinsicValue.d

\* C28: a result of status 'Undervalued' has a positive intrinsic value
\* above the current price, and a result of status 'Overvalued' has an
\* intrinsic value below the current price.
C28_StatusMatchesValue ==
    Returned =>
        /\ result.status = "Undervalued"
              => (result.intrinsicValue.n > 0 /\ ValueAbovePrice)
        /\ result.status = "Overvalued" => ValueBelowPrice

----------------------------------------------------------------------------
(* Claims about the 'Historical Trend (20Y)' criterion *)

TrailingRows == Hist20y(h_history)
StartPrice == TrailingRows[1].close
EndPrice == TrailingRows[Len(TrailingRows)].close
SpanDays == TrailingRows[1].age - TrailingRows[Len(TrailingRows)].age

\* What the CAGR of the trailing rows can be.
TrailingCagr == CagrClasses(StartPrice, EndPrice, SpanDays)

\* The drawdown from the period peak is a number of at most 30%.
DrawdownAtMost30 ==
    LET peak == MaxClose(TrailingRows)
    IN  IF peak.nan \/ peak.v <= 0 THEN TRUE
        ELSE ~EndPrice.nan /\ 10 * (peak.v - EndPrice.v) <= 3 * peak.v

\* C25: the criterion fails as 'Downtrend' when the CAGR is negative, else
\* as 'Stagnant' when it is under 5%, else as 'Declining' when the drawdown
\* from the peak is over 30%, else passes as 'Increasing'; so it passes iff
\* the CAGR is at least 5% and the drawdown at most 30%, and it fails for an
\* empty history, a span of a year or less and a non-positive start price.
C25_HistoricalTrend ==
    h_pc = "done" =>
        /\ h_criterion = <<[name |-> "Historical Trend (20Y)",
                            status |-> IF h_pass THEN "Pass" ELSE "Fail"]>>
        /\ h_pass <=> (h_val = "Increasing")
        /\ TrailingRows = <<>> => ~h_pass
        /\ TrailingRows # <<>> =>
              /\ h_val = "Downtrend" => "negative" \in TrailingCagr
              /\ h_val = "Stagnant" => "low" \in TrailingCagr
              /\ h_val = "Declining" => ("ok" \in TrailingCagr /\ ~DrawdownAtMost30)
              /\ h_pass => ("ok" \in TrailingCagr /\ DrawdownAtMost30)
              /\ (TrailingCagr = {"ok"} /\ DrawdownAtMost30) => h_pass
              /\ (4 * SpanDays <= 1461 \/ StartPrice.nan \/ StartPrice.v <= 0) => ~h_pass

----------------------------------------------------------------------------
(* Claims about the income criterion *)

CriteriaNamed(name) == { i \in 1..Len(score_criteria) : score_criteria[i].name = name }

\* C26: the criteria hold exactly one of 'Net Income Increasing' and
\* 'Operating Income Increasing': the latter, as a Pass, exactly when the
\* net-income trend failed and the operating-income trend passed; the
\* former otherwise, a Pass iff net income passed.  The two weights, equal
\* in every table, are never both in the max score.
C26_OneIncomeCriterion ==
    sc_pc = "done" =>
        LET ni == CriteriaNamed("Net Income Increasing")
            oi == CriteriaNamed("Operating Income Increasing")
        IN  /\ Cardinality(ni) + Cardinality(oi) = 1
            /\ (oi # {}) <=> (~sc_in.ni_pass /\ sc_in.oi_pass)
            /\ \A i \in oi : score_criteria[i].status = "Pass"
            /\ \A i \in ni : (score_criteria[i].status = "Pass") <=> sc_in.ni_pass
            /\ \A i \in ni \cup oi : i = 2
            /\ \A table \in {weights_ccc, weights_reit, weights_standard} :
                  table["Net Income Increasing"] = table["Operating Income Increasing"]
            /\ max_score = SumOver(CriteriaNames, TableWeight)
            /\ max_score <= SumOver(DOMAIN current_weights, current_weights)
                              - current_weights["Net Income Increasing"]

\* The operating income stands in for a failed net income.
C26_Witness ==
    /\ sc_pc = "done"
    /\ ~sc_in.ni_pass
    /\ sc_in.oi_pass
    /\ CriteriaNamed("Operating Income Increasing") = {2}
    /\ CriteriaNamed("Net Income Increasing") = {}
    /\ total_score > 0

----------------------------------------------------------------------------
(* Claims about clean_nan *)

\* `b` is `a` with every NaN or infinite float, at any depth, replaced by
\* None and nothing else changed: same keys, same lengths, same order.
RECURSIVE SameButNonFinite(_, _)
SameButNonFinite(a, b) ==
    IF a.t = "float" /\ a.kind # "finite" THEN b = PyNone
    ELSE IF a.t = "list"
    THEN /\ b.t = "list"
         /\ Len(b.items) = Len(a.items)
         /\ \A i \in 1..Len(a.items) : SameButNonFinite(a.items[i], b.items[i])
    ELSE IF a.t = "dict"
    THEN /\ b.t = "dict"
         /\ Len(b.items) = Len(a.items)
         /\ \A i \in 1..Len(a.items) :
               /\ b.items[i].k = a.items[i].k
               /\ SameButNonFinite(a.items[i].val, b.items[i].val)
    ELSE b = a

\* A NaN or infinite float somewhere in the value.
RECURSIVE HasNonFinite(_)
HasNonFinite(a) ==
    IF a.t = "float" THEN a.kind # "finite"
    ELSE IF a.t = "list" THEN \E i \in 1..Len(a.items) : HasNonFinite(a.items[i])
    ELSE IF a.t = "dict" THEN \E i \in 1..Len(a.items) : HasNonFinite(a.items[i].val)
    ELSE FALSE

\* C22: clean_nan returns a value of the same shape in which every NaN,
\* +Infinity and -Infinity float at any depth is None and every other
\* value is unchanged; cleaning the result again changes nothing.
C22_CleanNan ==
    c_pc = "done" =>
        /\ SameButNonFinite(c_data, c_response)
        /\ ~HasNonFinite(c_response)
        /\ clean_nan(c_response) = c_response

\* An infinity three levels down, under a dict that also holds a NaN.
C22_Witness ==
    /\ c_pc = "done"
    /\ c_data.t = "dict"
    /\ Len(c_data.items) = 2
    /\ c_data.items[1].val = PyNaN
    /\ c_data.items[2].val.t = "list"
    /\ \E i \in 1..Len(c_data.items[2].val.items) :
          LET x == c_data.items[2].val.items[i]
          IN  x.t = "dict" /\ \E j \in 1..Len(x.items) : x.items[j].val = PyNegInf
    /\ c_response # c_data

----------------------------------------------------------------------------
(* Claims about the growth estimates of get_stock_data *)

\* C29: whenever the provider returned a non-empty set of growth
\* estimates, its records are what calculate_intrinsic_value is handed and
\* what the response carries: nothing discards them in between.
C29_EstimatesReachEstimator ==
    (g_pc = "done" /\ ~g_raised /\ g_provider.type = "DataFrame" /\ g_provider.rows # <<>>) =>
        /\ g_fetched = g_provider.rows
        /\ g_handed = g_fetched
        /\ g_response = g_fetched

----------------------------------------------------------------------------
(* Claims about evaluate_moat *)

\* A request failed: a request error, no candidates, or a response that
\* does not parse.
FailedRequest(attempt) ==
    ~(attempt.response.kind = "result" /\ attempt.response.shape = "text is JSON")

\* The error a failed request ended in.
ErrorOf(attempt) ==
    IF attempt.response.kind = "exception" THEN attempt.response.error
    ELSE IF attempt.response.shape \in {"no candidates key", "empty candidates"}
    THEN "no candidates"
    ELSE IF attempt.response.shape = "text is not JSON" THEN "JSONDecodeError"
    ELSE "KeyError"

\* The models are contacted in the fixed order, the next one only after
\* every earlier one failed.
ContactedInOrder ==
    /\ Len(m_contacted) <= 2
    /\ \A i \in 1..Len(m_contacted) : m_contacted[i].model = models_to_try[i]
    /\ \A i \in 1..(Len(m_contacted) - 1) : FailedRequest(m_contacted[i])
    /\ models_to_try = <<"gemini-2.5-flash-lite", "gemini-2.5-flash">>

\* The call returns the parsed result of the first model that succeeds.
ReturnsFirstSuccess ==
    (m_pc = "done" /\ m_outcome.kind = "return") =>
        /\ m_contacted # <<>>
        /\ ~FailedRequest(m_contacted[Len(m_contacted)])
        /\ m_outcome.value = m_contacted[Len(m_contacted)].response.parsed

\* A success ends the call at once.
StopsAtSuccess ==
    (m_contacted # <<>> /\ ~FailedRequest(m_contacted[Len(m_contacted)])) =>
        (m_pc = "done" /\ m_outcome.kind = "return")

\* Without the key no model is contacted and the call ends in HTTP 500.
NoKeyNoContact ==
    ~m_api_key => (m_contacted = <<>> /\ (m_pc = "done" => m_outcome.kind = "HTTP 500"))

\* C30: the models are contacted in the fixed order, the second only
\* after the first failed; the first success is returned; HTTP 500 is
\* raised only after every model failed, and names the error of the last
\* failure; without the key it is raised before any contact.
C30_FallbackOrder ==
    /\ ContactedInOrder
    /\ ReturnsFirstSuccess
    /\ StopsAtSuccess
    /\ NoKeyNoContact
    /\ (m_pc = "done" /\ m_outcome.kind = "HTTP 500" /\ m_api_key) =>
          /\ Len(m_contacted) = 2
          /\ \A i \in 1..2 : FailedRequest(m_contacted[i])
          /\ m_outcome.value = ErrorOf(m_contacted[2])

----------------------------------------------------------------------------
(* Claims about the failures inside get_stock_data *)

\* The structure get_stock_data returns is complete.
CompleteResult ==
    /\ p_outcome.kind = "return"
    /\ p_outcome.score # <<>>
    /\ p_outcome.valuation \in {"Valued", "Error"}
    /\ p_outcome.support_resistance \in {"levels", "no levels"}

\* C21: no failure of a sub-computation of get_stock_data reaches the
\* caller; the call returns the complete structure, with score, valuation
\* and support_resistance.
C21_NoFailureEscapes == p_pc = "done" => CompleteResult

====
